---- MODULE Spec2Model ----
(***************************************************************************)
(* Model of TelegramHelper: the message pipeline (utils/processor.py), the *)
(* duplicate resolution (check_duplicate_tfidf_gpt, find_similar_pairs),   *)
(* the subscribers cache / digest scheduler (utils/subscribers_cache.py)   *)
(* and the cron worker with its start/stop endpoints (main.py).            *)
(*                                                                         *)
(* Each part has its own specification over its own group of variables;    *)
(* the variables of the other parts keep their initial value there.        *)
(*   SpecDigest, SpecAudience : the runs of one cron_worker as the digest  *)
(*               scheduler and the subscribers cache see them              *)
(*   SpecCron  : start_cron / stop_cron / cron_worker tasks                *)
(*   SpecDedup : one call of check_duplicate_tfidf_gpt                     *)
(*   Spec      : process_messages over the read/sent message tables        *)
(***************************************************************************)
EXTENDS Integers, Sequences, FiniteSets, TLC

VARIABLES
    \* ---- SubscribersCache (utils/subscribers_cache.py) and its caller
    cache,              \* _cache: channel id -> subscribers count
    last_date_range,    \* _last_date_range: <<>> (None) or <<from, to>>
    last_digest_date,   \* _last_digest_date: <<>> (None) or <<day>>
    is_mock,            \* config.is_mock
    prev_run,           \* cron_worker: prev_run
    window,             \* <<from_datetime, to_datetime>> of the current run
    cpc,                \* position of the run, as far as the cache is concerned
    need_full_refresh,  \* processor.py:709
    digest_range,       \* processor.py:808
    refresh_calls,      \* history: number of should_refresh calls so far (capped)
    first_refresh_day,  \* history: <<>> or <<date of to_datetime of the first should_refresh call>>
    markedDays,         \* history: days ever passed to mark_digest_sent
    hist_day,           \* history: <<>> or <<the date of to_datetime the two counters are about>>
    digestSent,         \* history: digests sent (or marked, in mock mode) by the runs of hist_day
    trigRuns,           \* history: should_send_digest calls of hist_day whose window held 12:00 (capped)
    \* ---- main.py: the cron globals, the worker tasks and the requests in flight
    cron_task,          \* <<>> (None) or <<the worker task created last>>
    cron_running_flag,
    cron_status,        \* [running, last_run]; last_run is <<>> (None) or <<"set">>
    wstate,             \* per worker task: "unborn", "start", "fetchdate", "processing",
                        \*                  "sleeping", "done"
    starts,             \* start_cron requests suspended in await request.json()
    stops,              \* per worker task: stop_cron requests suspended in await cron_task
    response,           \* the last HTTP response of start_cron / stop_cron
    \* ---- utils/processor.py: one call of check_duplicate_tfidf_gpt
    d_pc,               \* "call" or "returned"
    d_headline,         \* msg.headline
    d_existing,         \* existing_sent: sequence of [id, read_message_id]; 0 is None
    d_read,             \* read_msgs_by_id: read message id -> its headline
    d_yes,              \* the read messages check_pair_duplicate confirms against msg
    d_out,              \* what the call returned and which calls it made
    \* ---- utils/processor.py: process_messages over the two tables
    read,               \* read_messages: row i is [story, long, state, tags, link]; rows are
                        \*   numbered in msg_dttm order; link is sent_message_id, 0 is NULL
    sent,               \* sent_messages: sent[k] is the read_message_id of row k
    ppc,                \* position of the run: "idle", "s1" .. "s4", "s4w" (the writes of
                        \*   Stage 4), "s5" (Steps 5 to 8), "done"
    funnel,             \* [read, sent]
    messages_to_process,\* Stage 4: the batch, read message ids
    new_msg_to_sent,    \* Stage 4: read message ids of the new SentMessages, in order
    dup_links,          \* Stage 4: sequence of <<read id, sent id>>
    new_links,          \* Stage 4: sequence of <<read id, sent id>>
    confirmed,          \* history: <<m, e>>: the oracle confirmed m against read message e
    sent_before,        \* history: Len(sent) when the run started
    marked_to_update,   \* history: sent ids this run set to 'to_update'
    stages_run,         \* history: the stages this run has entered
    raised,             \* history: 0, or the stage of this run that raised
    runs,               \* history: the number of runs started so far
    \* ---- utils/scorer/scorer.py: one NewsScorer and the threads calling it
    sc_model,           \* _model: <<>> (None) or [coef_, intercept_]
    sc_known_tags,      \* _known_tags
    sc_sample_count,    \* _sample_count
    sc_centroid,        \* _centroid: <<>> (None) or <<"mean">>
    sc_disk,            \* [meta, model]: scorer_meta.json and scorer_model.joblib, each
                        \*   <<>> (no file) or <<what _save wrote>>
    sc_lock,            \* _lock: 0 (free) or the thread holding it
    sc_pc,              \* per thread: "idle", "p_lock", "p_check", "p_vec", "t_lock",
                        \*   "t_tags", "t_embed", "t_build", "t_fit", "t_save"
    sc_args,            \* per thread: the arguments and the locals of its call
    sc_ret,             \* per thread: <<>> or <<what its last call returned>>
    sc_calls,           \* history: the number of calls made so far
    \* ---- utils/processor.py, Step 5: the required-hashtag gate
    g_sent,             \* sent_messages rows: [state, read_message_id, text]
    g_read,             \* read_messages rows by id: [exists, hashtags]
    g_required,         \* config.required_hashtags
    g_pc,               \* "stage5", "done", "raised"
    g_before,           \* history: g_sent when Step 5 started
    \* ---- utils/processor.py, Step 6, and utils/telegram/sender.py
    s_rows,             \* sent_messages rows: [state, telegram_id, sent_at, error]
    s_todo,             \* the tasks of the running batch that wait for the semaphore
    s_inflight,         \* the tasks that hold the semaphore: their POST is under way
    s_rest,             \* the rows of the to_send list that no batch has taken yet
    s_outcome,          \* history, per row: "none" or what the Bot API call of this run did
    s_created,          \* history, per row: how many messages the channel got for it
    s_runs,             \* history: the number of Step 6 started so far
    s_pc,               \* "stage6", "sending", "done"
    \* ---- utils/scorer/reaction.py with its callers, Step 6.5 and _train_scorer
    r_pc,               \* "react", "label", "done"
    r_score,            \* the sent message's prediction_score, in hundredths
    r_thresholds,       \* <<config.scorer_pos_threshold, config.scorer_neg_threshold>>
    r_mock,             \* config.is_mock
    r_chosen,           \* what choose_bot_reaction returned: "" (None), "up", "down"
    r_bot_reaction,     \* the sent message's bot_reaction column: "" (NULL) or an emoji
    r_set_calls,        \* the calls of set_message_reaction so far: [emoji, ok]
    r_reactions,        \* what read_message_reactions_detailed returned: <<emoji, count>>
    r_weighted,         \* <<>> or <<compute_weighted_score_excluding_bot's result>>
    r_label,            \* <<>> or <<the training label>>
    \* ---- utils/processor.py, Step 5.5: pre-send scoring
    p_pc,               \* "start", "scoring", "done"
    p_sample_count,     \* scorer.sample_count
    p_rows,             \* sent_messages rows: [state, has_read, prediction_score, bot_reaction]
    p_start,            \* history: [sample_count, rows] when Step 5.5 started
    p_train_calls,      \* history: the number of _train_scorer calls of this Step 5.5
    p_score,            \* history, per row: <<>> or <<what scorer.predict returned>>
    p_draw,             \* history, per row: the value random.random() gives, in hundredths
    \* ---- utils/processor.py, Step 3: summarization
    z_pc,               \* "s3", "loop", "done"
    z_rows,             \* read_messages rows: [state, long, summary, error]
    z_before,           \* history: z_rows when Step 3 started
    z_list,             \* to_summarize
    z_i,                \* the loop's position in to_summarize, from 1
    z_summarized,       \* summarized_messages: the ids, in order
    z_error_updates,    \* error_updates: <<id, error text>>, in order
    z_response,         \* history, per row: the responses the summarizer gave for it
    \* ---- utils/processor.py, Step 1: fetch_and_save_raw_messages
    i_pc,               \* "idle", "fetching", "done"
    i_rows,             \* read_messages rows: [telegram_id, channel_id, state]
    i_window,           \* <<from_datetime, to_datetime>> of the run
    i_channels,         \* the channels of the folder the loop has not visited yet
    i_all_new,          \* all_new_messages: [telegram_id, channel_id, state]
    i_runs,             \* history: the number of runs started so far
    \* ---- utils/processor.py, Steps 5.5, 7 and 7.5: when the scorer is trained
    rt_pc,              \* "sleep", "s55", "s7", "s75", "done"
    rt_sample_count,    \* scorer.sample_count
    rt_cache_empty,     \* the subscribers cache holds no channel
    rt_last_range,      \* _last_date_range: <<>> (None) or <<from, to>>
    rt_window,          \* <<from_datetime, to_datetime>> of the run
    rt_need_full_refresh, \* processor.py:709
    rt_run,             \* history of the run: [count0, refreshed, calls55, calls75]
    rt_runs,            \* history: the number of runs started so far
    \* ---- the life of SentMessage rows over several runs ----
    l_rows,             \* sent_messages: id -> [state, telegram_id, required_tag, prediction_score, bot_reaction]
    l_pc,               \* the step the current run is at, "idle" between runs
    l_runs,             \* runs started
    l_mock,             \* config.is_mock
    \* ---- read_messages rows over runs that follow each other without end ----
    pg_rows,            \* read_messages: id -> [state, long, link]
    pg_pc,              \* the step the current run is at
    \* ---- the windows of one cron_worker ----
    cw_prev_run,        \* prev_run of cron_worker
    cw_window,          \* <<prev_run, next_run>> of the run in progress, None between runs
    cw_pc,              \* "sleep", "s1" (Step 1 not done yet), "later", "finish"
    cw_ingested,        \* history: the windows whose Step 1 has completed
    cw_done,            \* history: the windows of the finished runs, in order
    cw_failed           \* history: the run in progress has raised

cacheVars == <<cache, last_date_range, last_digest_date, is_mock, prev_run, window, cpc,
               need_full_refresh, digest_range, refresh_calls, first_refresh_day, markedDays, hist_day, digestSent, trigRuns>>

cronVars == <<cron_task, cron_running_flag, cron_status, wstate, starts, stops, response>>

dedupVars == <<d_pc, d_headline, d_existing, d_read, d_yes, d_out>>

tableVars == <<read, sent>>
runVars == <<ppc, funnel, messages_to_process, new_msg_to_sent, dup_links, new_links,
             confirmed, sent_before, marked_to_update, stages_run, raised, runs>>
pipeVars == <<tableVars, runVars>>

scorerVars == <<sc_model, sc_known_tags, sc_sample_count, sc_centroid, sc_disk, sc_lock,
                sc_pc, sc_args, sc_ret, sc_calls>>

gateVars == <<g_sent, g_read, g_required, g_pc, g_before>>

sendVars == <<s_rows, s_todo, s_inflight, s_rest, s_outcome, s_created, s_runs, s_pc>>

reactVars == <<r_pc, r_score, r_thresholds, r_mock, r_chosen, r_bot_reaction, r_set_calls,
               r_reactions, r_weighted, r_label>>

prescoreVars == <<p_pc, p_sample_count, p_rows, p_start, p_train_calls, p_score, p_draw>>

summarizeVars == <<z_pc, z_rows, z_before, z_list, z_i, z_summarized, z_error_updates, z_response>>

ingestVars == <<i_pc, i_rows, i_window, i_channels, i_all_new, i_runs>>

retrainVars == <<rt_pc, rt_sample_count, rt_cache_empty, rt_last_range, rt_window, rt_need_full_refresh, rt_run, rt_runs>>

lifeVars == <<l_rows, l_pc, l_runs, l_mock>>

progressVars == <<pg_rows, pg_pc>>

windowVars == <<cw_prev_run, cw_window, cw_pc, cw_ingested, cw_done, cw_failed>>

stageVars == <<gateVars, sendVars, reactVars, prescoreVars, summarizeVars, ingestVars, retrainVars, lifeVars, progressVars, windowVars>>

vars == <<cacheVars, cronVars, dedupVars, pipeVars, scorerVars, stageVars>>

nonCacheVars == <<cronVars, dedupVars, pipeVars, scorerVars, stageVars>>
nonCronVars == <<cacheVars, dedupVars, pipeVars, scorerVars, stageVars>>
nonDedupVars == <<cacheVars, cronVars, pipeVars, scorerVars, stageVars>>
nonPipeVars == <<cacheVars, cronVars, dedupVars, scorerVars, stageVars>>
nonScorerVars == <<cacheVars, cronVars, dedupVars, pipeVars, stageVars>>
nonStageVars == <<cacheVars, cronVars, dedupVars, pipeVars, scorerVars>>
nonGateVars == <<nonStageVars, sendVars, reactVars, prescoreVars, summarizeVars, ingestVars, retrainVars, lifeVars, progressVars, windowVars>>
nonSendVars == <<nonStageVars, gateVars, reactVars, prescoreVars, summarizeVars, ingestVars, retrainVars, lifeVars, progressVars, windowVars>>
nonReactVars == <<nonStageVars, gateVars, sendVars, prescoreVars, summarizeVars, ingestVars, retrainVars, lifeVars, progressVars, windowVars>>
nonPrescoreVars == <<nonStageVars, gateVars, sendVars, reactVars, summarizeVars, ingestVars, retrainVars, lifeVars, progressVars, windowVars>>
nonSummarizeVars == <<nonStageVars, gateVars, sendVars, reactVars, prescoreVars, ingestVars, retrainVars, lifeVars, progressVars, windowVars>>
nonIngestVars == <<nonStageVars, gateVars, sendVars, reactVars, prescoreVars, summarizeVars, retrainVars, lifeVars, progressVars, windowVars>>
nonRetrainVars == <<nonStageVars, gateVars, sendVars, reactVars, prescoreVars, summarizeVars, ingestVars, lifeVars, progressVars, windowVars>>
nonLifeVars == <<nonStageVars, gateVars, sendVars, reactVars, prescoreVars, summarizeVars, ingestVars, retrainVars, progressVars, windowVars>>
nonProgressVars == <<nonStageVars, gateVars, sendVars, reactVars, prescoreVars, summarizeVars, ingestVars, retrainVars, lifeVars, windowVars>>
nonWindowVars == <<nonStageVars, gateVars, sendVars, reactVars, prescoreVars, summarizeVars, ingestVars, retrainVars, lifeVars, progressVars>>

None == <<>>

Min(a, b) == IF a <= b THEN a ELSE b

(***************************************************************************)
(* Time.  A datetime is a number of hours since midnight of day 0; a date  *)
(* is a day number.  The clock hours at which a run may start are drawn    *)
(* from GridHours.                                                         *)
(***************************************************************************)
HoursPerDay == 24
TriggerHour == 12
CatchUpHours == 48
MaxDay == 2
MaxCount == 2
GridHours == {9, 12, 13, 15}
Days == 0..MaxDay
Times == {d * HoursPerDay + h : d \in Days, h \in GridHours}

Date(t) == t \div HoursPerDay
\* datetime.combine(day, datetime.min.time()) and datetime.combine(day, datetime.max.time()):
\* the first and the last representable instant of the day
DayMin(day) == day * HoursPerDay
DayMax(day) == day * HoursPerDay + (HoursPerDay - 1)

Channels == {"out", "src"}
OutputChannel == "out"
SubsCounts == {0, 7}

(***************************************************************************)
(* SubscribersCache                                                        *)
(***************************************************************************)
\* should_refresh(to_datetime)
should_refresh_wrong_end(c, ldr, to_datetime) ==
    \/ DOMAIN c = {}
    \/ ldr # None /\ Date(to_datetime) # Date(ldr[1])

should_refresh(c, ldr, to_datetime) ==
    \/ DOMAIN c = {}
    \/ ldr # None /\ Date(to_datetime) # Date(ldr[2])

\* should_send_digest(from_datetime, to_datetime): None or (digest_from, digest_to)
should_send_digest_unguarded(ldd, from_datetime, to_datetime) ==
    LET today == Date(to_datetime)
        trigger_time == DayMin(today) + TriggerHour
        yesterday == today - 1
    IN  IF ~(from_datetime <= trigger_time /\ trigger_time <= to_datetime)
        THEN None
        ELSE <<DayMin(yesterday), DayMax(yesterday)>>

should_send_digest_today(ldd, from_datetime, to_datetime) ==
    LET today == Date(to_datetime)
        trigger_time == DayMin(today) + TriggerHour
    IN  IF ~(from_datetime <= trigger_time /\ trigger_time <= to_datetime)
        THEN None
        ELSE IF ldd = <<today>> THEN None
        ELSE <<DayMin(today), DayMax(today)>>

should_send_digest(ldd, from_datetime, to_datetime) ==
    LET today == Date(to_datetime)
        trigger_time == DayMin(today) + TriggerHour
        yesterday == today - 1
    IN  IF ~(from_datetime <= trigger_time /\ trigger_time <= to_datetime)
        THEN None
        ELSE IF ldd = <<yesterday>> THEN None
        ELSE <<DayMin(yesterday), DayMax(yesterday)>>

\* set(channel_id, count) for every channel of chans, counts given by subs
cache_set_all(c, chans, subs) ==
    [ch \in (DOMAIN c) \cup chans |-> IF ch \in chans THEN subs[ch] ELSE c[ch]]

\* get_missing_channels(channel_ids)
get_missing_channels_all(c, channel_ids) == channel_ids

get_missing_channels(c, channel_ids) == {ch \in channel_ids : ch \notin DOMAIN c}

(***************************************************************************)
(* One cron_worker driving process_messages, as far as the cache goes.     *)
(* cpc: "sleep" (between runs), "early" (Steps 1..6.5), "s7" (Step 7 up to *)
(* should_refresh), "s7fetch", "s8" (Step 8 up to should_send_digest),     *)
(* "s8send", "finish" (back in cron_worker).                               *)
(* SpecDigest keeps Step 7 opaque (it writes no digest state), and         *)
(* SpecAudience keeps Step 8 opaque (it writes no audience state).         *)
(***************************************************************************)
InitCache ==
    /\ cache = <<>>
    /\ last_date_range = None
    /\ last_digest_date = None
    /\ window = None
    /\ cpc = "sleep"
    /\ need_full_refresh = FALSE
    /\ digest_range = None
    /\ refresh_calls = 0
    /\ first_refresh_day = None
    /\ markedDays = {}
    /\ hist_day = None
    /\ digestSent = 0
    /\ trigRuns = 0

\* the cache part at rest, for the specifications of the other parts
IdleCache == InitCache /\ is_mock = FALSE /\ prev_run = 0

audienceVars == <<cache, last_date_range, need_full_refresh, refresh_calls, first_refresh_day>>
digestVars == <<last_digest_date, is_mock, digest_range, markedDays, hist_day, digestSent, trigRuns>>

InTrigger(w) ==
    LET t == DayMin(Date(w[2])) + TriggerHour IN w[1] <= t /\ t <= w[2]

\* main.py:67-74: now, next_run and the call of process_messages(prev_run, next_run)
CronStartRun ==
    /\ cpc = "sleep"
    /\ \E now \in Times :
        /\ now >= prev_run
        /\ LET next_run == IF prev_run + CatchUpHours > now THEN now
                           ELSE prev_run + CatchUpHours
           IN  window' = <<prev_run, next_run>>
    /\ cpc' = "early"
    /\ UNCHANGED <<nonCacheVars, audienceVars, digestVars, prev_run>>

\* processor.py:411-694: Steps 1..6.5 are done; sent_for_emodji is empty or not
EarlyStepsDone ==
    /\ cpc = "early"
    /\ \E sent_for_emodji_nonempty \in BOOLEAN :
        cpc' = IF sent_for_emodji_nonempty THEN "s7" ELSE "s8"
    /\ UNCHANGED <<nonCacheVars, audienceVars, digestVars, prev_run, window>>

\* processor.py:708-709
Step7ShouldRefresh ==
    /\ cpc = "s7"
    /\ need_full_refresh' = should_refresh(cache, last_date_range, window[2])
    /\ refresh_calls' = Min(refresh_calls + 1, MaxCount + 1)
    /\ first_refresh_day' = IF refresh_calls = 0 THEN <<Date(window[2])>>
                            ELSE first_refresh_day
    /\ cpc' = "s7fetch"
    /\ UNCHANGED <<nonCacheVars, cache, last_date_range, digestVars, prev_run, window>>

\* processor.py:711-737: full refresh of all source channels, or top-up of the missing ones
Step7Fetch ==
    /\ cpc = "s7fetch"
    /\ \E others \in SUBSET (Channels \ {OutputChannel}) :
       \E subs \in [Channels -> SubsCounts] :
        LET source_channel_ids == {OutputChannel} \cup others
        IN  IF need_full_refresh
            THEN /\ cache' = cache_set_all(cache, source_channel_ids, subs)
                 /\ last_date_range' = window
            ELSE /\ cache' = cache_set_all(cache,
                                get_missing_channels(cache, source_channel_ids), subs)
                 /\ UNCHANGED last_date_range
    /\ cpc' = "s8"
    /\ UNCHANGED <<nonCacheVars, need_full_refresh, refresh_calls, first_refresh_day, digestVars,
                   prev_run, window>>

\* processor.py:694-803 seen from the digest scheduler: Step 7 and 7.5 write none of its state
Step7Opaque ==
    /\ cpc = "s7"
    /\ cpc' = "s8"
    /\ UNCHANGED <<nonCacheVars, audienceVars, digestVars, prev_run, window>>

\* processor.py:807-808
Step8ShouldSendDigest ==
    /\ cpc = "s8"
    /\ digest_range' = should_send_digest(last_digest_date, window[1], window[2])
    /\ LET same_day == hist_day = <<Date(window[2])>>
           trig == IF InTrigger(window) THEN 1 ELSE 0
       IN  /\ hist_day' = <<Date(window[2])>>
           /\ trigRuns' = IF same_day THEN Min(trigRuns + trig, MaxCount) ELSE trig
           /\ digestSent' = IF same_day THEN digestSent ELSE 0
    /\ cpc' = "s8send"
    /\ UNCHANGED <<nonCacheVars, audienceVars, last_digest_date, is_mock, markedDays, prev_run, window>>

\* mark_digest_sent(digest_date)
mark_digest_sent(digest_date) ==
    /\ last_digest_date' = <<digest_date>>
    /\ markedDays' = markedDays \cup {digest_date}

\* processor.py:809-822
Step8Send ==
    /\ cpc = "s8send"
    /\ \E success \in BOOLEAN :
        IF digest_range # None /\ (is_mock \/ success)
        THEN /\ mark_digest_sent(Date(digest_range[1]))
             /\ digestSent' = digestSent + 1
        ELSE UNCHANGED <<last_digest_date, markedDays, digestSent>>
    /\ cpc' = "finish"
    /\ UNCHANGED <<nonCacheVars, audienceVars, is_mock, digest_range, hist_day, trigRuns, prev_run, window>>

\* processor.py:806-829 seen from the subscribers cache: Step 8 writes none of its state
Step8Opaque ==
    /\ cpc = "s8"
    /\ cpc' = "finish"
    /\ UNCHANGED <<nonCacheVars, audienceVars, digestVars, prev_run, window>>

\* processor.py:831 with main.py:75-76: an exception in a step ends the run
RunRaises ==
    /\ cpc \in {"early", "s7", "s8", "s8send"}
    /\ cpc' = "finish"
    /\ UNCHANGED <<nonCacheVars, audienceVars, digestVars, prev_run, window>>

\* main.py:77-84; the locals of process_messages are gone
CronFinishRun ==
    /\ cpc = "finish"
    /\ prev_run' = window[2]
    /\ cpc' = "sleep"
    /\ window' = None
    /\ need_full_refresh' = FALSE
    /\ digest_range' = None
    /\ UNCHANGED <<nonCacheVars, cache, last_date_range, refresh_calls, first_refresh_day,
                   last_digest_date, is_mock, markedDays, hist_day, digestSent, trigRuns>>

(***************************************************************************)
(* main.py: start_cron, stop_cron and the cron_worker tasks.  All of them  *)
(* are coroutines of one event loop: a step runs from one await to the     *)
(* next.                                                                   *)
(***************************************************************************)
MaxWorkers == 3
MaxPending == 2
Workers == 1..MaxWorkers

InitCronVars ==
    /\ cron_task = None
    /\ cron_running_flag = FALSE
    /\ cron_status = [running |-> FALSE, last_run |-> None]
    /\ wstate = [w \in Workers |-> "unborn"]
    /\ starts = 0
    /\ stops = [w \in Workers |-> 0]
    /\ response = "none"

\* cron_task.done()
TaskDone(w) == wstate[w] = "done"

\* main.py:103 / main.py:126: cron_task and not cron_task.done()
TaskRunning == cron_task # None /\ ~TaskDone(cron_task[1])

\* main.py:65-66, 85: the head of `while cron_running_flag`, reached without an await
WhileHead(w) ==
    IF cron_running_flag
    THEN /\ wstate' = [wstate EXCEPT ![w] = "processing"]
         /\ cron_status' = [cron_status EXCEPT !.running = TRUE]
    ELSE /\ wstate' = [wstate EXCEPT ![w] = "done"]
         /\ cron_status' = [cron_status EXCEPT !.running = FALSE]

\* main.py:106-111: the rest of start_cron after the request body is there
StartCronCreate ==
    /\ \E w \in Workers :
        /\ wstate[w] = "unborn"
        /\ \A v \in Workers : v < w => wstate[v] # "unborn"
        /\ wstate' = [wstate EXCEPT ![w] = "start"]
        /\ cron_task' = <<w>>
    /\ cron_running_flag' = TRUE
    /\ response' = "started"

\* main.py:103-105: the check, then either the await of the JSON body or an empty body
StartCronEnter ==
    /\ \E json \in BOOLEAN :
        IF TaskRunning
        THEN /\ response' = "already running"
             /\ UNCHANGED <<cron_task, cron_running_flag, wstate, starts>>
        ELSE IF json
        THEN /\ starts < MaxPending
             /\ starts' = starts + 1
             /\ UNCHANGED <<cron_task, cron_running_flag, wstate, response>>
        ELSE /\ StartCronCreate
             /\ UNCHANGED starts
    /\ UNCHANGED <<cron_status, stops, nonCronVars>>

\* main.py:105-111: request.json() has returned
StartCronResume ==
    /\ starts > 0
    /\ starts' = starts - 1
    /\ StartCronCreate
    /\ UNCHANGED <<cron_status, stops, nonCronVars>>

\* main.py:126-129: the check, the flag and the await of cron_task
StopCronEnter ==
    /\ IF ~TaskRunning
       THEN /\ response' = "not running"
            /\ UNCHANGED <<cron_running_flag, stops>>
       ELSE /\ stops[cron_task[1]] < MaxPending
            /\ cron_running_flag' = FALSE
            /\ stops' = [stops EXCEPT ![cron_task[1]] = @ + 1]
            /\ UNCHANGED response
    /\ UNCHANGED <<cron_task, cron_status, wstate, starts, nonCronVars>>

\* main.py:129-131: the awaited task is done
StopCronResume(w) ==
    /\ stops[w] > 0
    /\ TaskDone(w)
    /\ stops' = [stops EXCEPT ![w] = @ - 1]
    /\ response' = "stopped"
    /\ UNCHANGED <<cron_task, cron_running_flag, cron_status, wstate, starts, nonCronVars>>

\* main.py:53-57: the task starts; without a last_run it awaits get_max_read_message_date
WorkerStart(w) ==
    /\ wstate[w] = "start"
    /\ IF cron_status.last_run # None
       THEN WhileHead(w)
       ELSE /\ wstate' = [wstate EXCEPT ![w] = "fetchdate"]
            /\ UNCHANGED cron_status
    /\ UNCHANGED <<cron_task, cron_running_flag, starts, stops, response, nonCronVars>>

\* main.py:58-66
WorkerGotDate(w) ==
    /\ wstate[w] = "fetchdate"
    /\ WhileHead(w)
    /\ UNCHANGED <<cron_task, cron_running_flag, starts, stops, response, nonCronVars>>

\* main.py:74-84: process_messages has returned or raised; last_run is set; the first
\* round of the sleep loop either breaks (flag cleared) or awaits asyncio.sleep(1)
WorkerProcessed(w) ==
    /\ wstate[w] = "processing"
    /\ IF cron_running_flag
       THEN /\ wstate' = [wstate EXCEPT ![w] = "sleeping"]
            /\ cron_status' = [cron_status EXCEPT !.last_run = <<"set">>]
       ELSE /\ wstate' = [wstate EXCEPT ![w] = "done"]
            /\ cron_status' = [running |-> FALSE, last_run |-> <<"set">>]
    /\ UNCHANGED <<cron_task, cron_running_flag, starts, stops, response, nonCronVars>>

\* main.py:81-85, 65: asyncio.sleep(1) has returned; the flag is cleared (break, then the
\* loop ends), or the interval is over (the next run starts)
WorkerWake(w) ==
    /\ wstate[w] = "sleeping"
    /\ WhileHead(w)
    /\ UNCHANGED <<cron_task, cron_running_flag, starts, stops, response, nonCronVars>>

(***************************************************************************)
(* utils/text_similarity.py and check_duplicate_tfidf_gpt.  A headline is  *)
(* the sequence of its words (each a token of the vectorizer); the empty   *)
(* sequence is the empty (or blank, or missing) headline.  TF-IDF weights  *)
(* are kept as integers: the idf of a term is ten times                    *)
(* ln((1 + n) / (1 + df)) + 1, rounded; a score is the squared cosine in   *)
(* hundredths.                                                             *)
(***************************************************************************)
MaxDfPercent == 95
SimilarityFloorPct == 1
NoId == 0
NoMatch == <<>>

\* TfidfVectorizer(smooth_idf=True): IdfTimes10[n][df] for n documents
IdfTimes10 == <<
    <<10>>,
    <<14, 10>>,
    <<17, 13, 10>>,
    <<19, 15, 12, 10>>,
    <<21, 17, 14, 12, 10>>,
    <<23, 18, 16, 13, 12, 10>>,
    <<24, 20, 17, 15, 13, 11, 10>>,
    <<25, 21, 18, 16, 14, 13, 11, 10>>,
    <<26, 22, 19, 17, 15, 14, 12, 11, 10>>,
    <<27, 23, 20, 18, 16, 15, 13, 12, 11, 10>>,
    <<28, 24, 21, 19, 17, 15, 14, 13, 12, 11, 10>>,
    <<29, 25, 22, 20, 18, 16, 15, 14, 13, 12, 11, 10>>,
    <<29, 25, 23, 20, 18, 17, 16, 14, 13, 12, 12, 11, 10>>,
    <<30, 26, 23, 21, 19, 18, 16, 15, 14, 13, 12, 11, 11, 10>>,
    <<31, 27, 24, 22, 20, 18, 17, 16, 15, 14, 13, 12, 11, 11, 10>>,
    <<31, 27, 24, 22, 20, 19, 18, 16, 15, 14, 13, 13, 12, 11, 11, 10>> >>

RECURSIVE SumFn(_, _)
SumFn(f, S) ==
    IF S = {} THEN 0
    ELSE LET x == CHOOSE y \in S : TRUE IN f[x] + SumFn(f, S \ {x})

\* ngram_range=(1, 2): the unigrams and the bigrams of a text
Terms(h) ==
    {<<h[i]>> : i \in 1..Len(h)} \cup {<<h[i], h[i + 1]>> : i \in 1..(Len(h) - 1)}

\* the number of occurrences of term t in text h
TermCount(h, t) ==
    Cardinality({i \in 1..(Len(h) - Len(t) + 1) : SubSeq(h, i, i + Len(t) - 1) = t})

\* similar_pairs.sort(key=score, reverse=True) over a set of <<position, score>>:
\* descending, equal scores in list order
RECURSIVE SortByScoreDesc(_)
SortByScoreDesc(S) ==
    IF S = {} THEN <<>>
    ELSE LET b == CHOOSE p \in S :
                    \A q \in S : p[2] > q[2] \/ (p[2] = q[2] /\ p[1] <= q[1])
         IN  <<b>> \o SortByScoreDesc(S \ {b})

\* find_similar_pairs(new_headline, existing_headlines, threshold=0.01):
\* existing_headlines is a sequence of <<id, headline>>, the result one of <<id, score>>
find_similar_pairs(new_headline, existing_headlines) ==
    IF new_headline = <<>> \/ existing_headlines = <<>> THEN <<>>
    ELSE
    LET valid_headlines == SelectSeq(existing_headlines, LAMBDA e : e[2] # <<>>)
    IN  IF valid_headlines = <<>> THEN <<>>
        ELSE
        LET all_texts == <<new_headline>> \o
                         [k \in 1..Len(valid_headlines) |-> valid_headlines[k][2]]
            n == Len(all_texts)
            df(t) == Cardinality({k \in 1..n : t \in Terms(all_texts[k])})
            vocabulary == {t \in UNION {Terms(all_texts[k]) : k \in 1..n} :
                             100 * df(t) <= MaxDfPercent * n}
        IN  IF vocabulary = {} THEN <<>>    \* ValueError, caught at line 78
            ELSE
            LET w(k, t) == TermCount(all_texts[k], t) * IdfTimes10[n][df(t)]
                \* the weights of text a are zero outside its own terms
                dot(a, b) == SumFn([t \in vocabulary \cap Terms(all_texts[a]) |->
                                      w(a, t) * w(b, t)],
                                   vocabulary \cap Terms(all_texts[a]))
                norm1 == dot(1, 1)
                cosine == {[i |-> i, dot |-> dot(1, i + 1),
                            norms |-> norm1 * dot(i + 1, i + 1)] :
                              i \in 1..Len(valid_headlines)}
                above == {c \in cosine :
                            /\ c.dot > 0
                            /\ (SimilarityFloorPct * SimilarityFloorPct * c.norms + 9999)
                                   \div 10000 <= c.dot * c.dot}
                order == SortByScoreDesc(
                             {<<c.i, (100 * c.dot * c.dot) \div c.norms>> : c \in above})
            IN  [j \in 1..Len(order) |-> <<valid_headlines[order[j][1]][1], order[j][2]>>]

\* processor.py:321-343: the oracle loop over similar_pairs from position i on
RECURSIVE OracleLoop(_, _, _, _, _, _)
OracleLoop(similar_pairs, i, existing_sent, read_msgs_by_id, yes, asked) ==
    IF i > Len(similar_pairs) THEN [result |-> NoMatch, asked |-> asked, vec |-> 1]
    ELSE
    LET sent_id == similar_pairs[i][1]
        found == {k \in 1..Len(existing_sent) : existing_sent[k].id = sent_id}
        sent_msg == existing_sent[CHOOSE k \in found : \A j \in found : k <= j]
        skip == OracleLoop(similar_pairs, i + 1, existing_sent, read_msgs_by_id, yes, asked)
    IN  IF found = {} THEN skip
        ELSE IF sent_msg.read_message_id = NoId THEN skip
        ELSE IF sent_msg.read_message_id \notin DOMAIN read_msgs_by_id THEN skip
        ELSE IF sent_msg.read_message_id \in yes
        THEN [result |-> <<sent_id>>,
              asked |-> Append(asked, sent_msg.read_message_id), vec |-> 1]
        ELSE OracleLoop(similar_pairs, i + 1, existing_sent, read_msgs_by_id, yes,
                        Append(asked, sent_msg.read_message_id))

\* processor.py:301-307
ExistingHeadlines(existing_sent, read_msgs_by_id) ==
    LET kept == SelectSeq(existing_sent,
                    LAMBDA s : /\ s.read_message_id # NoId
                               /\ s.read_message_id \in DOMAIN read_msgs_by_id
                               /\ read_msgs_by_id[s.read_message_id] # <<>>)
    IN  [k \in 1..Len(kept) |-> <<kept[k].id, read_msgs_by_id[kept[k].read_message_id]>>]

\* processor.py:301-343: the call past its first guard
CheckDuplicateBody(headline, existing_sent, read_msgs_by_id, yes) ==
    LET existing_headlines == ExistingHeadlines(existing_sent, read_msgs_by_id)
    IN  IF existing_headlines = <<>>
        THEN [result |-> NoMatch, asked |-> <<>>, vec |-> 0]
        ELSE LET similar_pairs == find_similar_pairs(headline, existing_headlines)
             IN  OracleLoop(similar_pairs, 1, existing_sent, read_msgs_by_id, yes, <<>>)

\* check_duplicate_tfidf_gpt(msg, existing_sent, read_msgs_by_id, similarity_threshold=0.01):
\* result is NoMatch ('') or <<the id returned>>, asked the read messages given to
\* check_pair_duplicate in call order, vec the number of find_similar_pairs calls
check_duplicate_tfidf_gpt_unguarded(headline, existing_sent, read_msgs_by_id, yes) ==
    CheckDuplicateBody(headline, existing_sent, read_msgs_by_id, yes)

check_duplicate_tfidf_gpt(headline, existing_sent, read_msgs_by_id, yes) ==
    IF existing_sent = <<>> \/ headline = <<>>
    THEN [result |-> NoMatch, asked |-> <<>>, vec |-> 0]
    ELSE CheckDuplicateBody(headline, existing_sent, read_msgs_by_id, yes)

\* `if dup_sent_id:` at processor.py:480
Truthy_never(result) == FALSE

Truthy(result) == result # NoMatch /\ result[1] # NoId

(***************************************************************************)
(* One call of check_duplicate_tfidf_gpt on drawn arguments.               *)
(***************************************************************************)
MaxPool == 2
Words == {1, 2}
Headlines == {<<>>} \cup {<<x>> : x \in Words}
                    \cup {h \in Words \X Words : h[1] # h[2]}

\* pools whose k-th member has id k or None and read message k or None
Pools ==
    UNION {{[k \in 1..len |-> [id |-> IF k \in ids THEN k ELSE NoId,
                               read_message_id |-> IF k \in rids THEN k ELSE NoId]] :
                ids \in SUBSET (1..len), rids \in SUBSET (1..len)} : len \in 0..MaxPool}

InitDedupVars ==
    /\ d_pc = "call"
    /\ d_headline \in Headlines
    /\ d_existing \in Pools
    /\ \E loaded \in SUBSET (1..MaxPool) : d_read \in [loaded -> Headlines]
    /\ d_yes \in SUBSET (DOMAIN d_read)
    /\ d_out = [result |-> NoMatch, asked |-> <<>>, vec |-> 0]

\* the dedup part at rest, for the specifications of the other parts
IdleDedup ==
    /\ d_pc = "call"
    /\ d_headline = <<>>
    /\ d_existing = <<>>
    /\ d_read = <<>>
    /\ d_yes = {}
    /\ d_out = [result |-> NoMatch, asked |-> <<>>, vec |-> 0]

\* processor.py:476-478: the call and its return
CheckDuplicate ==
    /\ d_pc = "call"
    /\ d_out' = check_duplicate_tfidf_gpt(d_headline, d_existing, d_read, d_yes)
    /\ d_pc' = "returned"
    /\ UNCHANGED <<d_headline, d_existing, d_read, d_yes, nonDedupVars>>

(***************************************************************************)
(* process_messages, Steps 1 to 4 over read_messages and sent_messages;    *)
(* Steps 5 to 8 write neither read_messages.state nor a link and are kept  *)
(* as steps without effect here.  A raw item is about a story; the         *)
(* summarizer gives every item of a story the same headline, and the       *)
(* oracle, when it answers, confirms exactly the pairs of one story.       *)
(* Stories are named in the order in which they first appear.  All rows    *)
(* lie inside the dedup window.  The four batch writes that end Stage 4    *)
(* are taken as one step.                                                  *)
(***************************************************************************)
MaxRead == 4
MaxRuns == 2
Stories == {"a", "b", "c"}
StoryIndex == [st \in Stories |-> IF st = "a" THEN 1 ELSE IF st = "b" THEN 2 ELSE 3]
HeadlineOf == [st \in Stories |->
                 IF st = "a" THEN <<1, 2>> ELSE IF st = "b" THEN <<3, 4>> ELSE <<5, 6>>]
\* every story of the sequence is an earlier one or the first unused name
InOrderOfAppearance(stories) ==
    \A j \in 1..Len(stories) :
        \A st \in Stories :
            StoryIndex[st] < StoryIndex[stories[j]] => \E i \in 1..(j - 1) : stories[i] = st
SummaryOutcomes == {"ok", "notags", "none"}
StageOf == [pos \in {"s1", "s2", "s3", "s4", "s4w", "s5"} |->
              IF pos = "s1" THEN 1 ELSE IF pos = "s2" THEN 2 ELSE IF pos = "s3" THEN 3
              ELSE IF pos = "s5" THEN 5 ELSE 4]

ReadIds == 1..Len(read)

\* the headline column of a read_messages row: written by Step 3 only
RowHeadline(row) ==
    IF row.state \in {"summarized", "deduplicated"} THEN HeadlineOf[row.story] ELSE <<>>

\* get_messages_by_state(state, None, limit, min_text_length), ids in msg_dttm order
get_messages_any_state(rows, state, min_text_length) ==
    {i \in 1..Len(rows) : min_text_length = 0 \/ rows[i].long}

get_messages_by_state(rows, state, min_text_length) ==
    {i \in 1..Len(rows) : rows[i].state = state /\ (min_text_length = 0 \/ rows[i].long)}

\* get_summarized_unlinked_messages()
get_summarized_messages_any_link(rows) ==
    {i \in 1..Len(rows) : rows[i].state \in {"summarized", "deduplicated"}}

get_summarized_unlinked_messages(rows) ==
    {i \in 1..Len(rows) : rows[i].state = "summarized" /\ rows[i].link = NoId}

\* a set of row numbers as the sequence ORDER BY msg_dttm ASC
RECURSIVE Ascending(_)
Ascending(S) ==
    IF S = {} THEN <<>>
    ELSE LET lo == CHOOSE k \in S : \A j \in S : k <= j IN <<lo>> \o Ascending(S \ {lo})

\* get_sent_messages_for_dedup(from_date): ORDER BY message_dttm DESC
get_sent_messages_for_dedup(sent_rows) ==
    LET order == SortByScoreDesc({<<k, sent_rows[k]>> : k \in 1..Len(sent_rows)})
    IN  [j \in 1..Len(order) |-> [id |-> order[j][1], read_message_id |-> order[j][2]]]

\* batch_update_read_messages_parsed(messages, set_state) / batch_update_read_messages_error
SetState(rows, ids, state) ==
    [i \in 1..Len(rows) |-> IF i \in ids THEN [rows[i] EXCEPT !.state = state] ELSE rows[i]]

\* batch_link_read_messages_to_sent(links, set_state=None)
RECURSIVE batch_link_keep_state(_, _)
batch_link_keep_state(rows, links) ==
    IF links = <<>> THEN rows
    ELSE batch_link_keep_state(
             [rows EXCEPT ![links[1][1]] = [@ EXCEPT !.link = links[1][2]]], Tail(links))

\* batch_link_read_messages_to_sent(links, set_state='deduplicated')
RECURSIVE batch_link_read_messages_to_sent(_, _)
batch_link_read_messages_to_sent(rows, links) ==
    IF links = <<>> THEN rows
    ELSE batch_link_read_messages_to_sent(
             [rows EXCEPT ![links[1][1]] = [@ EXCEPT !.link = links[1][2],
                                                     !.state = "deduplicated"]],
             Tail(links))

\* processor.py:479-491: what the loop does with the answer out for message m;
\* st is [existing_sent, loaded, new_msg_to_sent, dup_links, confirmed]
DedupStep(st, m, out) ==
    LET conf == IF out.result # NoMatch
                THEN st.confirmed \cup {<<m, out.asked[Len(out.asked)]>>}
                ELSE st.confirmed
    IN  IF Truthy(out.result)
        THEN [st EXCEPT !.dup_links = Append(@, <<m, out.result[1]>>),
                        !.confirmed = conf]
        ELSE [st EXCEPT !.existing_sent = Append(@, [id |-> NoId, read_message_id |-> m]),
                        !.loaded = @ \cup {m},
                        !.new_msg_to_sent = Append(@, m),
                        !.confirmed = conf]

\* processor.py:471-478: the loop over messages_to_process from position i on; a message
\* without hashtags is not checked
RECURSIVE DedupLoop(_, _, _, _)
DedupLoop(msgs, i, st, oracle_up) ==
    IF i > Len(msgs) THEN st
    ELSE DedupLoop(msgs, i + 1,
             DedupStep(st, msgs[i],
                 IF read[msgs[i]].tags
                 THEN check_duplicate_tfidf_gpt(
                          RowHeadline(read[msgs[i]]), st.existing_sent,
                          [r \in st.loaded |-> RowHeadline(read[r])],
                          IF oracle_up
                          THEN {r \in ReadIds : read[r].story = read[msgs[i]].story}
                          ELSE {})
                 ELSE [result |-> NoMatch, asked |-> <<>>, vec |-> 0]),
             oracle_up)

InitTables ==
    /\ read = <<>>
    /\ sent = <<>>

InitRun ==
    /\ ppc = "idle"
    /\ funnel = [read |-> 0, sent |-> 0]
    /\ messages_to_process = <<>>
    /\ new_msg_to_sent = <<>>
    /\ dup_links = <<>>
    /\ new_links = <<>>
    /\ confirmed = {}
    /\ sent_before = 0
    /\ marked_to_update = {}
    /\ stages_run = {}
    /\ raised = 0
    /\ runs = 0

InitPipeVars == InitTables /\ InitRun

\* main.py:74 and processor.py:403-409: cron_worker calls process_messages
StartRun ==
    /\ ppc = "idle"
    /\ runs < MaxRuns
    /\ runs' = runs + 1
    /\ ppc' = "s1"
    /\ sent_before' = Len(sent)
    /\ stages_run' = {1}
    /\ UNCHANGED <<tableVars, funnel, messages_to_process, new_msg_to_sent, dup_links,
                   new_links, confirmed, marked_to_update, raised, nonPipeVars>>

\* processor.py:411-413, fetch_and_save_raw_messages: the new messages of the window are
\* inserted with state 'read'
Step1Read ==
    /\ ppc = "s1"
    /\ \E k \in 0..(MaxRead - Len(read)) :
       \E stories \in [1..k -> Stories] :
        /\ InOrderOfAppearance([i \in ReadIds |-> read[i].story] \o stories)
        /\ read' = read \o [j \in 1..k |->
                       [story |-> stories[j], long |-> TRUE, state |-> "read",
                        tags |-> FALSE, link |-> NoId]]
        /\ funnel' = [funnel EXCEPT !.read = k]
    /\ ppc' = "s2"
    /\ stages_run' = stages_run \cup {2}
    /\ UNCHANGED <<sent, messages_to_process, new_msg_to_sent, dup_links, new_links,
                   confirmed, sent_before, marked_to_update, raised, runs, nonPipeVars>>

\* processor.py:415-417, parse_and_update_messages: the cleaned text of a message is at
\* least 50 characters long, or not
Step2Clean ==
    /\ ppc = "s2"
    /\ LET to_parse == get_messages_by_state(read, "read", 0)
       IN  \E long \in [to_parse -> BOOLEAN] :
            read' = [i \in ReadIds |->
                       IF i \in to_parse
                       THEN [read[i] EXCEPT !.state = "clean", !.long = long[i]]
                       ELSE read[i]]
    /\ ppc' = "s3"
    /\ stages_run' = stages_run \cup {3}
    /\ UNCHANGED <<sent, funnel, messages_to_process, new_msg_to_sent, dup_links, new_links,
                   confirmed, sent_before, marked_to_update, raised, runs, nonPipeVars>>

\* processor.py:419-446: summarize_read_message per message, then the two batch updates
Step3Summarize ==
    /\ ppc = "s3"
    /\ LET to_summarize == get_messages_by_state(read, "clean", 50)
       IN  \E outcome \in [to_summarize -> SummaryOutcomes] :
            LET summarized_messages == {i \in to_summarize : outcome[i] # "none"}
                error_updates == {i \in to_summarize : outcome[i] = "none"}
                with_tags == [i \in ReadIds |->
                                IF i \in summarized_messages
                                THEN [read[i] EXCEPT !.tags = (outcome[i] = "ok")]
                                ELSE read[i]]
            IN  read' = SetState(SetState(with_tags, summarized_messages, "summarized"),
                                 error_updates, "error")
    /\ ppc' = "s4"
    /\ stages_run' = stages_run \cup {4}
    /\ UNCHANGED <<sent, funnel, messages_to_process, new_msg_to_sent, dup_links, new_links,
                   confirmed, sent_before, marked_to_update, raised, runs, nonPipeVars>>

\* processor.py:448-495: the batch is loaded and every message of it is resolved
Step4Resolve ==
    /\ ppc = "s4"
    /\ \E oracle_up \in BOOLEAN :
        LET msgs == Ascending(get_summarized_unlinked_messages(read))
            existing_sent == get_sent_messages_for_dedup(sent)
            existing_read_ids == {existing_sent[k].read_message_id :
                                    k \in 1..Len(existing_sent)} \cap ReadIds
        IN  \E st \in {DedupLoop(msgs, 1,
                          [existing_sent |-> existing_sent, loaded |-> existing_read_ids,
                           new_msg_to_sent |-> <<>>, dup_links |-> <<>>,
                           confirmed |-> {}],
                          oracle_up)} :
                /\ messages_to_process' = msgs
                /\ new_msg_to_sent' = st.new_msg_to_sent
                /\ dup_links' = st.dup_links
                /\ confirmed' = st.confirmed
    /\ ppc' = "s4w"
    /\ UNCHANGED <<tableVars, funnel, new_links, sent_before, marked_to_update, stages_run,
                   raised, runs, nonPipeVars>>

\* processor.py:497-514: the new SentMessages are inserted and get their ids, the
\* duplicates and then the new messages are linked, dup_sent_state_updates are written and
\* the funnel is counted
Step4Write ==
    /\ ppc = "s4w"
    /\ LET links == [j \in 1..Len(new_msg_to_sent) |-> <<new_msg_to_sent[j], Len(sent) + j>>]
       IN  /\ sent' = sent \o new_msg_to_sent
           /\ new_links' = links
           /\ read' = batch_link_read_messages_to_sent(
                          batch_link_read_messages_to_sent(read, dup_links), links)
           /\ funnel' = [funnel EXCEPT !.sent = Len(links) + Len(dup_links)]
    /\ marked_to_update' = {dup_links[j][2] : j \in 1..Len(dup_links)}
    /\ ppc' = "s5"
    /\ stages_run' = stages_run \cup {5}
    /\ UNCHANGED <<messages_to_process, new_msg_to_sent, dup_links,
                   confirmed, sent_before, raised, runs, nonPipeVars>>

\* processor.py:516-831: Steps 5 to 8 run one after the other and the funnel is returned;
\* the other locals of Stage 4 are not used again
LaterSteps ==
    /\ ppc = "s5"
    /\ ppc' = "done"
    /\ stages_run' = stages_run \cup {6, 7, 8}
    /\ messages_to_process' = <<>>
    /\ new_msg_to_sent' = <<>>
    /\ dup_links' = <<>>
    /\ new_links' = <<>>
    /\ confirmed' = {}
    /\ marked_to_update' = {}
    /\ UNCHANGED <<tableVars, funnel, sent_before, raised, runs, nonPipeVars>>

\* processor.py:406, 831-833 with main.py:75-76: no step has an except clause of its own;
\* an exception of a step leaves the try block, with the locals gone, and is caught in
\* cron_worker.  At "s5" the step that raises is one of Steps 5 to 8.
StepRaises ==
    /\ ppc \in DOMAIN StageOf
    /\ \E k \in 1..8 :
        /\ IF ppc = "s5" THEN k >= 5 ELSE k = StageOf[ppc]
        /\ raised' = k
        /\ stages_run' = stages_run \cup (StageOf[ppc]..k)
    /\ ppc' = "done"
    /\ funnel' = [read |-> 0, sent |-> 0]
    /\ messages_to_process' = <<>>
    /\ new_msg_to_sent' = <<>>
    /\ dup_links' = <<>>
    /\ new_links' = <<>>
    /\ confirmed' = {}
    /\ marked_to_update' = {}
    /\ UNCHANGED <<tableVars, sent_before, runs, nonPipeVars>>

\* processor.py:497-511: each of the four writes commits in a transaction of its own
\* (connection.py:47-74); the run is interrupted, by an exception of the next write or by
\* the end of the process, when the first p of them are done.  The state updates of the
\* duplicates' SentMessages (p = 4) are not among them.
Step4WriteInterrupted ==
    /\ ppc = "s4w"
    /\ \E p \in 1..3 :
        LET links == [j \in 1..Len(new_msg_to_sent) |-> <<new_msg_to_sent[j], Len(sent) + j>>]
            r2 == IF p >= 2 THEN batch_link_read_messages_to_sent(read, dup_links) ELSE read
            r3 == IF p >= 3 THEN batch_link_read_messages_to_sent(r2, links) ELSE r2
        IN  /\ (new_msg_to_sent # <<>> \/ (p >= 2 /\ dup_links # <<>>))
            /\ sent' = sent \o new_msg_to_sent
            /\ read' = r3
    /\ raised' = 4
    /\ ppc' = "done"
    /\ funnel' = [read |-> 0, sent |-> 0]
    /\ messages_to_process' = <<>>
    /\ new_msg_to_sent' = <<>>
    /\ dup_links' = <<>>
    /\ new_links' = <<>>
    /\ confirmed' = {}
    /\ marked_to_update' = {}
    /\ UNCHANGED <<sent_before, stages_run, runs, nonPipeVars>>

\* processor.py:833 and main.py:75-85: process_messages has returned or raised; its locals
\* are gone
FinishRun ==
    /\ ppc = "done"
    /\ ppc' = "idle"
    /\ funnel' = [read |-> 0, sent |-> 0]
    /\ messages_to_process' = <<>>
    /\ new_msg_to_sent' = <<>>
    /\ dup_links' = <<>>
    /\ new_links' = <<>>
    /\ confirmed' = {}
    /\ sent_before' = 0
    /\ marked_to_update' = {}
    /\ stages_run' = {}
    /\ raised' = 0
    /\ UNCHANGED <<tableVars, runs, nonPipeVars>>

(***************************************************************************)
(* utils/scorer: NewsScorer.  The embedding and the numeric block of a     *)
(* feature vector are EmbeddingDim and FixedNumericDim wide (384 and 16 in *)
(* features.py).  A feature value is kept in tenths (1.0 is 10); every     *)
(* text has the same embedding, so the centroid of a training batch is     *)
(* that embedding.  partial_fit moves the weights along the sum   *)
(* of the rows of X by a step (-1, 0 or 1) that stands for the labels and  *)
(* the learning rate; predict_proba is 0.5 at a weighted sum of 0, above   *)
(* it for a positive and below it for a negative sum.  Scores are in       *)
(* hundredths.                                                             *)
(***************************************************************************)
EmbeddingDim == 2
FixedNumericDim == 2
scorer_min_samples == 2
MaxCalls == 3
MaxBatch == 2
MaxThreads == 2
Threads == 1..MaxThreads
ScorerTags == {"t1", "t2"}
HashtagLists == {<<>>, <<"t1">>, <<"t2">>}
\* training_data: the hashtags of each example
TrainingData == UNION {[1..n -> HashtagLists] : n \in 0..MaxBatch}
ColdScore == 50

Range(f) == {f[i] : i \in DOMAIN f}

\* features.py:49-113, build_feature_vector: embedding, numeric (the last of them is the
\* distance from the centroid, 0.5 without one), one-hot hashtags over known_tags
build_feature_vector(hashtags, known_tags, centroid) ==
    [i \in 1..EmbeddingDim |-> 10]
    \o [i \in 1..FixedNumericDim |->
          IF i < FixedNumericDim THEN 10 ELSE IF centroid = None THEN 5 ELSE 0]
    \o [i \in 1..Len(known_tags) |-> IF known_tags[i] \in Range(hashtags) THEN 10 ELSE 0]

\* scorer.py:191-197
pad_or_truncate(vec, expected) ==
    IF Len(vec) = expected THEN vec
    ELSE IF Len(vec) < expected THEN vec \o [i \in 1..(expected - Len(vec)) |-> 0]
    ELSE SubSeq(vec, 1, expected)

\* coef_ . vec + intercept_ (decision_function)
RECURSIVE DotFrom(_, _, _)
DotFrom(w, vec, i) ==
    IF i > Len(w) THEN 0 ELSE w[i] * vec[i] + DotFrom(w, vec, i + 1)

decision_function(model, vec) == DotFrom(model.coef_, vec, 1) + model.intercept_

\* predict_proba(...)[0][idx of class 1]
predict_proba(model, vec) ==
    LET z == decision_function(model, vec)
    IN  IF z > 0 THEN 75 ELSE IF z < 0 THEN 25 ELSE ColdScore

\* scorer.py:134-139: the unseen hashtags of the batch, appended in order of appearance
RECURSIVE AppendUnseen(_, _)
AppendUnseen(known_tags, tags) ==
    IF tags = <<>> THEN known_tags
    ELSE AppendUnseen(IF tags[1] \in Range(known_tags) THEN known_tags
                      ELSE Append(known_tags, tags[1]),
                      Tail(tags))

RECURSIVE Flatten(_)
Flatten(seqs) == IF seqs = <<>> THEN <<>> ELSE seqs[1] \o Flatten(Tail(seqs))

\* scorer.py:177: np.pad(coef_, ((0, 0), (0, pad_width)), constant_values=0)
np_pad_front(coef, pad_width) == [i \in 1..pad_width |-> 0] \o coef

np_pad(coef, pad_width) == coef \o [i \in 1..pad_width |-> 0]

\* the sum of the rows of X
RECURSIVE RowSum(_, _)
RowSum(X, i) ==
    IF X = <<>> THEN 0 ELSE X[1][i] + RowSum(Tail(X), i)

\* SGDClassifier.partial_fit(X, y) on weights of the width of X
partial_fit(model, X, step) ==
    LET dim == Len(X[1])
    IN  [coef_ |-> [i \in 1..dim |-> model.coef_[i] + step * (RowSum(X, i) \div 10)],
         intercept_ |-> model.intercept_ + step * Len(X)]

NoArgs == [hashtags |-> <<>>, data |-> <<>>, tags_before |-> <<>>, coef_before |-> <<>>]

InitScorerVars ==
    /\ sc_model = None
    /\ sc_known_tags = <<>>
    /\ sc_sample_count = 0
    /\ sc_centroid = None
    /\ sc_disk = [meta |-> None, model |-> None]
    /\ sc_lock = 0
    /\ sc_pc = [t \in Threads |-> "idle"]
    /\ sc_args = [t \in Threads |-> NoArgs]
    /\ sc_ret = [t \in Threads |-> None]
    /\ sc_calls = 0

\* `with self._lock` is left, by return or by an exception, and the call ends
Release(t, ret) ==
    /\ sc_lock' = 0
    /\ sc_pc' = [sc_pc EXCEPT ![t] = "idle"]
    /\ sc_ret' = [sc_ret EXCEPT ![t] = <<ret>>]
    /\ sc_args' = [sc_args EXCEPT ![t] = NoArgs]

\* processor.py:593-600: a thread calls scorer.predict and reaches `with self._lock`
PredictCall(t) ==
    /\ sc_pc[t] = "idle"
    /\ sc_calls < MaxCalls
    /\ sc_calls' = sc_calls + 1
    /\ \E hashtags \in HashtagLists :
        sc_args' = [sc_args EXCEPT ![t] = [NoArgs EXCEPT !.hashtags = hashtags]]
    /\ sc_pc' = [sc_pc EXCEPT ![t] = "p_lock"]
    /\ sc_ret' = [sc_ret EXCEPT ![t] = None]
    /\ UNCHANGED <<sc_model, sc_known_tags, sc_sample_count, sc_centroid, sc_disk, sc_lock,
                   nonScorerVars>>

\* processor.py:116 and scorer.py:128-131: a thread calls scorer.train; an empty batch
\* returns at once
TrainCall(t) ==
    /\ sc_pc[t] = "idle"
    /\ sc_calls < MaxCalls
    /\ sc_calls' = sc_calls + 1
    /\ \E data \in TrainingData :
        /\ sc_args' = [sc_args EXCEPT ![t] = [NoArgs EXCEPT !.data = data]]
        /\ IF data = <<>>
           THEN sc_pc' = sc_pc /\ sc_ret' = [sc_ret EXCEPT ![t] = <<[outcome |-> "empty"]>>]
           ELSE sc_pc' = [sc_pc EXCEPT ![t] = "t_lock"] /\ sc_ret' = [sc_ret EXCEPT ![t] = None]
    /\ UNCHANGED <<sc_model, sc_known_tags, sc_sample_count, sc_centroid, sc_disk, sc_lock,
                   nonScorerVars>>

\* scorer.py:101, 131: threading.Lock is acquired when it is free
LockAcquire_nowait(t) ==
    /\ sc_pc[t] \in {"p_lock", "t_lock"}
    /\ sc_lock' = t
    /\ sc_pc' = [sc_pc EXCEPT ![t] = IF sc_pc[t] = "p_lock" THEN "p_check" ELSE "t_tags"]
    /\ UNCHANGED <<sc_model, sc_known_tags, sc_sample_count, sc_centroid, sc_disk, sc_args,
                   sc_ret, sc_calls, nonScorerVars>>

LockAcquire(t) ==
    /\ sc_pc[t] \in {"p_lock", "t_lock"}
    /\ sc_lock = 0
    /\ sc_lock' = t
    /\ sc_pc' = [sc_pc EXCEPT ![t] = IF sc_pc[t] = "p_lock" THEN "p_check" ELSE "t_tags"]
    /\ UNCHANGED <<sc_model, sc_known_tags, sc_sample_count, sc_centroid, sc_disk, sc_args,
                   sc_ret, sc_calls, nonScorerVars>>

\* scorer.py:102-103
PredictCheck_model_only(t) ==
    /\ sc_pc[t] = "p_check"
    /\ IF sc_model = None
       THEN Release(t, [score |-> ColdScore, consulted |-> FALSE])
       ELSE /\ sc_pc' = [sc_pc EXCEPT ![t] = "p_vec"]
            /\ UNCHANGED <<sc_lock, sc_ret, sc_args>>
    /\ UNCHANGED <<sc_model, sc_known_tags, sc_sample_count, sc_centroid, sc_disk,
                   sc_calls, nonScorerVars>>

PredictCheck(t) ==
    /\ sc_pc[t] = "p_check"
    /\ IF sc_sample_count < scorer_min_samples \/ sc_model = None
       THEN Release(t, [score |-> ColdScore, consulted |-> FALSE])
       ELSE /\ sc_pc' = [sc_pc EXCEPT ![t] = "p_vec"]
            /\ UNCHANGED <<sc_lock, sc_ret, sc_args>>
    /\ UNCHANGED <<sc_model, sc_known_tags, sc_sample_count, sc_centroid, sc_disk,
                   sc_calls, nonScorerVars>>

\* scorer.py:105-117
PredictScore(t) ==
    /\ sc_pc[t] = "p_vec"
    /\ LET vec == build_feature_vector(sc_args[t].hashtags, sc_known_tags, sc_centroid)
           expected == Len(sc_model.coef_)
       IN  Release(t, [score |-> predict_proba(sc_model, pad_or_truncate(vec, expected)),
                       consulted |-> TRUE])
    /\ UNCHANGED <<sc_model, sc_known_tags, sc_sample_count, sc_centroid, sc_disk, sc_calls,
                   nonScorerVars>>

\* scorer.py:134-139
TrainTags(t) ==
    /\ sc_pc[t] = "t_tags"
    /\ sc_known_tags' = AppendUnseen(sc_known_tags, Flatten(sc_args[t].data))
    /\ sc_args' = [sc_args EXCEPT ![t].tags_before = sc_known_tags]
    /\ sc_pc' = [sc_pc EXCEPT ![t] = "t_embed"]
    /\ UNCHANGED <<sc_model, sc_sample_count, sc_centroid, sc_disk, sc_lock, sc_ret, sc_calls,
                   nonScorerVars>>

\* scorer.py:142-147: embed_texts returns the embeddings and the centroid is set, or it
\* raises (the sentence-transformers model cannot be loaded or run) and the call ends
TrainEmbed(t) ==
    /\ sc_pc[t] = "t_embed"
    /\ \/ /\ sc_centroid' = <<"mean">>
          /\ sc_pc' = [sc_pc EXCEPT ![t] = "t_build"]
          /\ UNCHANGED <<sc_lock, sc_ret, sc_args>>
       \/ /\ Release(t, [outcome |-> "raised"])
          /\ UNCHANGED sc_centroid
    /\ UNCHANGED <<sc_model, sc_known_tags, sc_sample_count, sc_disk, sc_calls,
                   nonScorerVars>>

\* scorer.py:150-166: the feature matrix of the batch
TrainX(t) ==
    [r \in 1..Len(sc_args[t].data) |->
        build_feature_vector(sc_args[t].data[r], sc_known_tags, sc_centroid)]

\* scorer.py:168-181: a first model is created (its weights start at zero in partial_fit),
\* or a coef_ narrower than X is padded
TrainBuild(t) ==
    /\ sc_pc[t] = "t_build"
    /\ LET expected_dim == Len(TrainX(t)[1])
       IN  IF sc_model = None
           THEN /\ sc_model' = [coef_ |-> [i \in 1..expected_dim |-> 0], intercept_ |-> 0]
                /\ UNCHANGED sc_args
           ELSE /\ sc_model' = IF expected_dim > Len(sc_model.coef_)
                               THEN [sc_model EXCEPT
                                       !.coef_ = np_pad(@, expected_dim - Len(@))]
                               ELSE sc_model
                /\ sc_args' = [sc_args EXCEPT ![t].coef_before = sc_model.coef_]
    /\ sc_pc' = [sc_pc EXCEPT ![t] = "t_fit"]
    /\ UNCHANGED <<sc_known_tags, sc_sample_count, sc_centroid, sc_disk, sc_lock, sc_ret,
                   sc_calls, nonScorerVars>>

\* scorer.py:170, 181-183: partial_fit on X, padded to the width of coef_ when narrower
TrainFit(t) ==
    /\ sc_pc[t] = "t_fit"
    /\ LET X == [r \in 1..Len(sc_args[t].data) |->
                   pad_or_truncate(TrainX(t)[r], Len(sc_model.coef_))]
       IN  \E step \in {-1, 1} : sc_model' = partial_fit(sc_model, X, step)
    /\ sc_pc' = [sc_pc EXCEPT ![t] = "t_save"]
    /\ UNCHANGED <<sc_known_tags, sc_sample_count, sc_centroid, sc_disk, sc_lock, sc_args,
                   sc_ret, sc_calls, nonScorerVars>>

\* scorer.py:66-73: the meta file as _save writes it
MetaFile(known_tags, sample_count, centroid) ==
    <<[known_tags |-> known_tags, sample_count |-> sample_count, centroid |-> centroid]>>

\* scorer.py:75-76: the model file, with the sample count it was trained up to
ModelFile(model, sample_count) == <<[model |-> model, sample_count |-> sample_count]>>

\* scorer.py:185-187 and 64-76
TrainSave(t) ==
    /\ sc_pc[t] = "t_save"
    /\ sc_sample_count' = sc_sample_count + Len(sc_args[t].data)
    /\ sc_disk' = [meta |-> MetaFile(sc_known_tags, sc_sample_count', sc_centroid),
                   model |-> ModelFile(sc_model, sc_sample_count')]
    /\ Release(t, [outcome |-> "trained"])
    /\ UNCHANGED <<sc_model, sc_known_tags, sc_centroid, sc_calls, nonScorerVars>>

\* scorer.py:48-62: a new process builds the scorer from the two files
Load(disk) ==
    /\ sc_known_tags' = IF disk.meta = None THEN <<>> ELSE disk.meta[1].known_tags
    /\ sc_sample_count' = IF disk.meta = None THEN 0 ELSE disk.meta[1].sample_count
    /\ sc_centroid' = IF disk.meta = None THEN None ELSE disk.meta[1].centroid
    /\ sc_model' = IF disk.model = None THEN None ELSE disk.model[1].model
    /\ sc_lock' = 0
    /\ sc_pc' = [t \in Threads |-> "idle"]
    /\ sc_args' = [t \in Threads |-> NoArgs]
    /\ sc_ret' = [t \in Threads |-> None]

\* the process dies while no file is being written, and is started again
CrashReload ==
    /\ \E t \in Threads : sc_pc[t] # "idle"
    /\ Load(sc_disk)
    /\ UNCHANGED <<sc_disk, sc_calls, nonScorerVars>>

\* scorer.py:72-76: the process dies in _save after the meta file was written and before
\* joblib.dump has replaced the model file, and is started again
TrainSaveInterrupted(t) ==
    /\ sc_pc[t] = "t_save"
    /\ \E disk \in {[sc_disk EXCEPT !.meta =
                         MetaFile(sc_known_tags, sc_sample_count + Len(sc_args[t].data),
                                  sc_centroid)]} :
        /\ sc_disk' = disk
        /\ Load(disk)
    /\ UNCHANGED <<sc_calls, nonScorerVars>>

(***************************************************************************)
(* utils/processor.py, Step 5: formatting and the required-hashtag gate.   *)
(* A tag is a sequence of characters.                                      *)
(***************************************************************************)
MaxGateSent == 2
MaxGateRead == 2
MaxHashtags == 2

GateTags == {<<"n">>, <<"#", "N">>, <<"#", "#", "n">>, <<"o">>, <<"#", "o">>, <<"#">>}
GateHashtagLists == UNION {[1..n -> GateTags] : n \in 0..MaxHashtags}
GateRequired == {<<<<"#", "n">>>>, <<<<"N">>>>, <<<<"#", "n">>, <<"o">>>>}

RECURSIVE lstrip_hash(_)
lstrip_hash(t) == IF t # <<>> /\ Head(t) = "#" THEN lstrip_hash(Tail(t)) ELSE t

lower(t) == [i \in 1..Len(t) |-> CASE t[i] = "N" -> "n" [] t[i] = "O" -> "o" [] OTHER -> t[i]]

\* processor.py:541-542
\* processor.py:541-542
normalize_tag_nolower(t) == lstrip_hash(t)

normalize_tag(t) == lower(lstrip_hash(t))

\* processor.py:543-547
has_required_hashtag(hashtags, required_hashtags) ==
    \E i \in 1..Len(required_hashtags) :
        \E j \in 1..Len(hashtags) :
            normalize_tag(required_hashtags[i]) = normalize_tag(hashtags[j])

\* processor.py:530-557: the state Step 5 collects for one sent message, <<>> for none
GateState(sent_row, read_rows, required_hashtags) ==
    IF sent_row.read_message_id = 0 THEN <<>>
    ELSE IF ~read_rows[sent_row.read_message_id].exists THEN <<"no_send">>
    ELSE IF has_required_hashtag(read_rows[sent_row.read_message_id].hashtags,
                                 required_hashtags)
         THEN <<"to_send">>
         ELSE <<"no_send">>

InitGateVars ==
    /\ g_sent \in UNION {[1..n -> [state : {"new", "to_update", "sent"},
                                   read_message_id : 0..MaxGateRead,
                                   text : {""}]] : n \in 1..MaxGateSent}
    /\ g_read \in [1..MaxGateRead ->
                      {[exists |-> FALSE, hashtags |-> <<>>]}
                      \cup [exists : {TRUE}, hashtags : GateHashtagLists]]
    /\ g_required \in GateRequired
    /\ g_pc = "stage5"
    /\ g_before = g_sent

IdleGateVars ==
    /\ g_sent = <<>>
    /\ g_read = <<>>
    /\ g_required = <<>>
    /\ g_pc = "done"
    /\ g_before = <<>>


\* processor.py:516-565
Step5Generate ==
    /\ g_pc = "stage5"
    /\ g_sent' = [k \in 1..Len(g_sent) |->
                    IF g_sent[k].state \in {"new", "to_update"}
                    THEN LET st == GateState(g_sent[k], g_read, g_required)
                         IN  [g_sent[k] EXCEPT
                                 !.text = IF g_sent[k].read_message_id # 0
                                             /\ g_read[g_sent[k].read_message_id].exists
                                          THEN "formatted" ELSE @,
                                 !.state = IF st = <<>> THEN @ ELSE st[1]]
                    ELSE g_sent[k]]
    /\ g_pc' = "done"
    /\ UNCHANGED <<g_read, g_required, g_before, nonGateVars>>

\* processor.py:535: format_telegram_summary raises before the batch updates (560-563)
Step5Raises ==
    /\ g_pc = "stage5"
    /\ \E k \in 1..Len(g_sent) :
        /\ g_sent[k].state \in {"new", "to_update"}
        /\ g_sent[k].read_message_id # 0
        /\ g_read[g_sent[k].read_message_id].exists
    /\ g_pc' = "raised"
    /\ UNCHANGED <<g_sent, g_read, g_required, g_before, nonGateVars>>

(***************************************************************************)
(* utils/processor.py, Step 6, and utils/telegram/sender.py.               *)
(* telegram_id 0 is None, sent_at 0 is NULL, error "" is NULL or ''.       *)
(***************************************************************************)
MaxSend == 3
MaxSendRuns == 2
batch_size == 2
send_concurrency == 1
OldTelegramId == 7
OldSentAt == 1
Now == 2

\* what the POST to the Bot API does: ok with a message_id, ok = false with a description,
\* an exception whose str() is not empty, an exception whose str() is empty
SendOutcomes == {"ok", "rejected", "raised", "raised_empty"}

\* sender.py:59-62, 108-112
ErrorOf(outcome) ==
    CASE outcome = "ok" -> ""
      [] outcome = "rejected" -> "description"
      [] outcome = "raised" -> "exception text"
      [] outcome = "raised_empty" -> ""

\* the message_id the channel gives to the n-th message created for row k
NewTelegramId(k, n) == 10 * n + k

\* messages.py:348-355
update_sent_message_telegram_id(row, telegram_id) ==
    [row EXCEPT !.telegram_id = telegram_id, !.sent_at = Now, !.state = "sent"]

\* messages.py:358-362
update_sent_message_error(row, error) == [row EXCEPT !.error = error, !.state = "error"]

\* messages.py:334-338
update_sent_message_state(row, new_state) == [row EXCEPT !.state = new_state]

\* sender.py:25-75; the row has an id, as every row Step 6 loads; message_id is the id
\* the channel gives if it creates the message
send_sent_message(row, message_id, outcome) ==
    LET telegram_id == IF outcome = "ok" THEN message_id ELSE 0
        error == ErrorOf(outcome)
        r1 == IF telegram_id # 0 THEN update_sent_message_telegram_id(row, telegram_id)
              ELSE row
    IN  IF error # "" THEN update_sent_message_error(r1, error) ELSE r1

\* sender.py:78-124; called with a telegram_id only (sender.py:138-140)
update_sent_message_in_telegram(row, outcome) ==
    LET error == ErrorOf(outcome)
    IN  IF error # "" THEN update_sent_message_error(row, error)
        ELSE update_sent_message_state(row, "sent")

\* sender.py:127-143
send_or_update_message_always_new(row, message_id, outcome) ==
    send_sent_message(row, message_id, outcome)

send_or_update_message(row, message_id, outcome) ==
    IF row.telegram_id # 0
    THEN update_sent_message_in_telegram(row, outcome)
    ELSE send_sent_message(row, message_id, outcome)

InitSendVars ==
    /\ s_rows \in UNION {[1..n -> {[state |-> st, telegram_id |-> tid,
                                    sent_at |-> IF tid = 0 THEN 0 ELSE OldSentAt,
                                    error |-> ""] :
                                       st \in {"to_send", "no_send"},
                                       tid \in {0, OldTelegramId}}] : n \in 1..MaxSend}
    /\ s_todo = {}
    /\ s_inflight = {}
    /\ s_rest = <<>>
    /\ s_outcome = [k \in DOMAIN s_rows |-> "none"]
    /\ s_created = [k \in DOMAIN s_rows |-> IF s_rows[k].telegram_id = 0 THEN 0 ELSE 1]
    /\ s_runs = 0
    /\ s_pc = "stage6"

IdleSendVars ==
    /\ s_rows = <<>>
    /\ s_todo = {}
    /\ s_inflight = {}
    /\ s_rest = <<>>
    /\ s_outcome = <<>>
    /\ s_created = <<>>
    /\ s_runs = 0
    /\ s_pc = "done"

\* the first batch_size rows of a list as a set, processor.py:634
Batch(list) == {list[i] : i \in 1..Min(batch_size, Len(list))}

\* processor.py:626-635, 642-649: the to_send list, oldest first, and its first batch;
\* nothing is sent in mock mode or when the list is empty
Step6Load ==
    /\ s_pc = "stage6"
    /\ s_runs' = s_runs + 1
    /\ LET to_send == Ascending({k \in DOMAIN s_rows : s_rows[k].state = "to_send"})
       IN  \/ /\ to_send # <<>>
              /\ s_todo' = Batch(to_send)
              /\ s_rest' = SubSeq(to_send, Min(batch_size, Len(to_send)) + 1, Len(to_send))
              /\ s_pc' = "sending"
           \/ /\ s_todo' = {}
              /\ s_rest' = <<>>
              /\ s_pc' = "done"
    /\ s_outcome' = [k \in DOMAIN s_rows |-> "none"]
    /\ UNCHANGED <<s_rows, s_inflight, s_created, nonSendVars>>

\* sender.py:373-377: `async with sem` lets a task in while a permit is free
TaskStart_unbounded(k) ==
    /\ s_pc = "sending"
    /\ k \in s_todo
    /\ s_todo' = s_todo \ {k}
    /\ s_inflight' = s_inflight \cup {k}
    /\ UNCHANGED <<s_rows, s_rest, s_outcome, s_created, s_runs, s_pc, nonSendVars>>

TaskStart(k) ==
    /\ s_pc = "sending"
    /\ k \in s_todo
    /\ Cardinality(s_inflight) < send_concurrency
    /\ s_todo' = s_todo \ {k}
    /\ s_inflight' = s_inflight \cup {k}
    /\ UNCHANGED <<s_rows, s_rest, s_outcome, s_created, s_runs, s_pc, nonSendVars>>

\* sender.py:376-388: the POST of one task ends (it is bounded by timeout=30.0), the
\* outcome is persisted and the permit is given back.  A sendMessage POST that raises may
\* or may not have created the message in the channel.
ProcessOne(k) ==
    /\ s_pc = "sending"
    /\ k \in s_inflight
    /\ \E outcome \in SendOutcomes, delivered \in BOOLEAN :
        /\ outcome = "ok" => delivered
        /\ outcome = "rejected" => ~delivered
        /\ s_rows[k].telegram_id # 0 => delivered = (outcome = "ok")
        /\ s_rows' = [s_rows EXCEPT ![k] =
                         send_or_update_message(s_rows[k],
                                                NewTelegramId(k, s_created[k] + 1), outcome)]
        /\ s_outcome' = [s_outcome EXCEPT ![k] = outcome]
        /\ s_created' = [s_created EXCEPT ![k] =
                            IF s_rows[k].telegram_id = 0 /\ delivered THEN @ + 1 ELSE @]
    /\ s_inflight' = s_inflight \ {k}
    /\ UNCHANGED <<s_todo, s_rest, s_runs, s_pc, nonSendVars>>

\* processor.py:633-641: gather has returned; the next batch is taken, or the step ends
Step6Done ==
    /\ s_pc = "sending"
    /\ s_todo = {}
    /\ s_inflight = {}
    /\ IF s_rest # <<>>
       THEN /\ s_todo' = Batch(s_rest)
            /\ s_rest' = SubSeq(s_rest, Min(batch_size, Len(s_rest)) + 1, Len(s_rest))
            /\ s_pc' = s_pc
       ELSE UNCHANGED <<s_todo, s_rest>> /\ s_pc' = "done"
    /\ UNCHANGED <<s_rows, s_inflight, s_outcome, s_created, s_runs, nonSendVars>>

\* processor.py:507-511, 560-563 of a later run: Step 4 sets SentMessages that got a
\* duplicate to to_update, whatever their state, and Step 5 sets them to to_send; then
\* Step 6 runs again
LaterRun ==
    /\ s_pc = "done"
    /\ s_runs \in 1..(MaxSendRuns - 1)
    /\ \E updated \in SUBSET {k \in DOMAIN s_rows : s_rows[k].state \in {"sent", "error"}} :
        s_rows' = [k \in DOMAIN s_rows |->
                      IF k \in updated THEN [s_rows[k] EXCEPT !.state = "to_send"]
                      ELSE s_rows[k]]
    /\ s_pc' = "stage6"
    /\ UNCHANGED <<s_todo, s_inflight, s_rest, s_outcome, s_created, s_runs, nonSendVars>>

(***************************************************************************)
(* utils/scorer/reaction.py, with Step 6.5 and _train_scorer of            *)
(* utils/processor.py.  Scores and thresholds are in hundredths.           *)
(***************************************************************************)
scorer_pos_threshold == 60
scorer_neg_threshold == 25
MaxScore == 100
MaxReactions == 3
MaxReactionCount == 2

ThresholdPairs == {<<scorer_pos_threshold, scorer_neg_threshold>>, <<80, 40>>}

Emoji == {"fire", "up", "down", "vomit", "other"}

\* sender.py:217-226
REACTION_WEIGHTS(emoji) ==
    CASE emoji = "fire" -> 10
      [] emoji = "heart" -> 5
      [] emoji = "up" -> 1
      [] emoji = "down" -> -1
      [] emoji = "poop" -> -5
      [] emoji = "vomit" -> -10
      [] OTHER -> 1

\* reaction.py:15-30
choose_bot_reaction_above(score, pos, neg) ==
    IF score > pos THEN "up" ELSE IF score <= neg THEN "down" ELSE ""

choose_bot_reaction(score, pos, neg) ==
    IF score >= pos THEN "up" ELSE IF score <= neg THEN "down" ELSE ""

\* reaction.py:79-88: the loop from entry i on
RECURSIVE WeightedFrom_every(_, _, _, _)
WeightedFrom_every(reactions, bot_reaction, i, bot_subtracted) ==
    IF i > Len(reactions) THEN 0
    ELSE LET emoji == reactions[i][1]
             count == reactions[i][2]
             hit == bot_reaction # "" /\ emoji = bot_reaction
             adjusted_count == IF hit THEN (IF count - 1 > 0 THEN count - 1 ELSE 0) ELSE count
         IN  REACTION_WEIGHTS(emoji) * adjusted_count
             + WeightedFrom_every(reactions, bot_reaction, i + 1, bot_subtracted \/ hit)

RECURSIVE WeightedFrom(_, _, _, _)
WeightedFrom(reactions, bot_reaction, i, bot_subtracted) ==
    IF i > Len(reactions) THEN 0
    ELSE LET emoji == reactions[i][1]
             count == reactions[i][2]
             hit == ~bot_subtracted /\ bot_reaction # "" /\ emoji = bot_reaction
             adjusted_count == IF hit THEN (IF count - 1 > 0 THEN count - 1 ELSE 0) ELSE count
         IN  REACTION_WEIGHTS(emoji) * adjusted_count
             + WeightedFrom(reactions, bot_reaction, i + 1, bot_subtracted \/ hit)

compute_weighted_score_excluding_bot(reactions, bot_reaction) ==
    WeightedFrom(reactions, bot_reaction, 1, FALSE)

IdleReactVars ==
    /\ r_pc = "done"
    /\ r_score = 0
    /\ r_thresholds = <<scorer_pos_threshold, scorer_neg_threshold>>
    /\ r_mock = FALSE
    /\ r_chosen = ""
    /\ r_bot_reaction = ""
    /\ r_set_calls = <<>>
    /\ r_reactions = <<>>
    /\ r_weighted = <<>>
    /\ r_label = <<>>

\* a sent message Step 6.5 picks (processor.py:658), or one _train_scorer has read the
\* reactions of (processor.py:96-101)
InitReactVars ==
    /\ r_chosen = ""
    /\ r_set_calls = <<>>
    /\ r_weighted = <<>>
    /\ r_label = <<>>
    /\ r_thresholds \in ThresholdPairs
    /\ \/ /\ r_pc = "react"
          /\ r_score \in 0..MaxScore
          /\ r_mock \in BOOLEAN
          /\ r_bot_reaction = ""
          /\ r_reactions = <<>>
       \/ /\ r_pc = "label"
          /\ r_score = 0
          /\ r_mock = FALSE
          /\ r_bot_reaction \in {"", "up", "down"}
          /\ r_reactions \in UNION {[1..n -> Emoji \X (0..MaxReactionCount)] :
                                       n \in 1..MaxReactions}

\* processor.py:663-678, for one message
Step65React ==
    /\ r_pc = "react"
    /\ LET reaction_emoji == choose_bot_reaction(r_score, r_thresholds[1], r_thresholds[2])
       IN  /\ r_chosen' = reaction_emoji
           /\ IF reaction_emoji # "" /\ ~r_mock
              THEN \E ok \in BOOLEAN :
                        /\ r_set_calls' = Append(r_set_calls,
                                                 [emoji |-> reaction_emoji, ok |-> ok])
                        /\ r_bot_reaction' = IF ok THEN reaction_emoji ELSE r_bot_reaction
              ELSE /\ r_set_calls' = r_set_calls
                   /\ r_bot_reaction' = IF reaction_emoji # "" THEN reaction_emoji
                                        ELSE r_bot_reaction
    /\ r_pc' = "done"
    /\ UNCHANGED <<r_score, r_thresholds, r_mock, r_reactions, r_weighted, r_label,
                   nonReactVars>>

\* processor.py:100-104
TrainLabel ==
    /\ r_pc = "label"
    /\ \E weighted \in {compute_weighted_score_excluding_bot(r_reactions, r_bot_reaction)} :
        /\ r_weighted' = <<weighted>>
        /\ r_label' = <<IF weighted > 0 THEN 1 ELSE 0>>
    /\ r_pc' = "done"
    /\ UNCHANGED <<r_score, r_thresholds, r_mock, r_chosen, r_bot_reaction, r_set_calls,
                   r_reactions, nonReactVars>>

(***************************************************************************)
(* utils/processor.py, Step 5.5: the cold-start training and the           *)
(* pre-send scoring.  Scores, thresholds and draws are in hundredths.      *)
(***************************************************************************)
low_score_send_probability == 30
MaxPrescore == 2
MaxTrained == 2

PredictedScores == {0, scorer_neg_threshold, scorer_neg_threshold + 1, MaxScore}
Draws == {0, low_score_send_probability - 1, low_score_send_probability, 99}

\* processor.py:572: the test that guards the cold-start training
needs_cold_start(sample_count) == sample_count = 0

\* processor.py:603-609
demoted_any_draw(score, draw) == score <= scorer_neg_threshold

demoted(score, draw) ==
    score <= scorer_neg_threshold /\ ~(draw < low_score_send_probability)

\* scorer.py:102-117, as seen by Step 5.5: 0.5 while cold, else the model's probability
PredictOutcomes(sample_count) ==
    IF sample_count < scorer_min_samples THEN {ColdScore} ELSE PredictedScores

InitPrescoreVars ==
    /\ p_pc = "start"
    /\ p_sample_count \in 0..(scorer_min_samples + 1)
    /\ p_rows \in UNION {[1..n -> [state : {"to_send", "sent", "no_send"},
                                   has_read : BOOLEAN,
                                   prediction_score : {<<>>},
                                   bot_reaction : {"", "up"}]] : n \in 1..MaxPrescore}
    /\ p_start = [sample_count |-> p_sample_count, rows |-> p_rows]
    /\ p_train_calls = 0
    /\ p_score = [k \in DOMAIN p_rows |-> <<>>]
    /\ p_draw \in [DOMAIN p_rows -> Draws]

IdlePrescoreVars ==
    /\ p_pc = "done"
    /\ p_sample_count = 0
    /\ p_rows = <<>>
    /\ p_start = [sample_count |-> 0, rows |-> <<>>]
    /\ p_train_calls = 0
    /\ p_score = <<>>
    /\ p_draw = <<>>

\* processor.py:569-575 with _train_scorer (80-118): trained examples are added to
\* sample_count; there may be none
Step55ColdStart ==
    /\ p_pc = "start"
    /\ IF needs_cold_start(p_sample_count)
       THEN /\ \E trained \in 0..MaxTrained : p_sample_count' = p_sample_count + trained
            /\ p_train_calls' = p_train_calls + 1
       ELSE UNCHANGED <<p_sample_count, p_train_calls>>
    /\ p_pc' = "scoring"
    /\ UNCHANGED <<p_rows, p_start, p_score, p_draw, nonPrescoreVars>>

\* processor.py:577-622: every to_send row with a read message is scored, then the
\* scores (with bot_reaction None) and the low_score states are written
Step55Score ==
    /\ p_pc = "scoring"
    /\ LET scored == {k \in DOMAIN p_rows : p_rows[k].state = "to_send" /\ p_rows[k].has_read}
       IN  \E score \in [scored -> PredictOutcomes(p_sample_count)] :
            /\ p_score' = [k \in DOMAIN p_rows |-> IF k \in scored THEN <<score[k]>> ELSE <<>>]
            /\ p_rows' = [k \in DOMAIN p_rows |->
                            IF k \in scored
                            THEN [p_rows[k] EXCEPT
                                     !.prediction_score = <<score[k]>>,
                                     !.bot_reaction = "",
                                     !.state = IF demoted(score[k], p_draw[k])
                                               THEN "low_score" ELSE @]
                            ELSE p_rows[k]]
    /\ p_pc' = "done"
    /\ UNCHANGED <<p_sample_count, p_start, p_train_calls, p_draw, nonPrescoreVars>>

(***************************************************************************)
(* utils/processor.py, Step 3: every clean message is summarized, then the *)
(* results are written in two batches.                                     *)
(***************************************************************************)
MaxSummarize == 3

\* what summarize_message_text and the handling of its response can do
\* (processor.py:247-269): an empty response, a response extract_json_from_response
\* gives None for, one json.loads rejects, an exception of the call, a parsed response
\* whose fields raise after msg.summary was assigned, a well-formed response
Responses == {"empty", "no_json", "decode_error", "raised", "bad_fields", "ok"}

\* processor.py:233-269: <<>> is None, else the summary of the returned message
summarize_read_message(answer) ==
    IF answer = "ok" THEN <<"summary">> ELSE <<>>

\* messages.py:498-506
batch_update_read_messages_error_keep_state(rows, error_updates) ==
    [i \in 1..Len(rows) |->
        IF \E u \in 1..Len(error_updates) : error_updates[u][1] = i
        THEN [rows[i] EXCEPT !.error =
                 error_updates[CHOOSE u \in 1..Len(error_updates) :
                                  error_updates[u][1] = i][2]]
        ELSE rows[i]]

batch_update_read_messages_error(rows, error_updates) ==
    [i \in 1..Len(rows) |->
        IF \E u \in 1..Len(error_updates) : error_updates[u][1] = i
        THEN [rows[i] EXCEPT !.error =
                 error_updates[CHOOSE u \in 1..Len(error_updates) :
                                  error_updates[u][1] = i][2],
                             !.state = "error"]
        ELSE rows[i]]

\* messages.py:481-495 with set_state: the summary columns and the state
batch_update_read_messages_parsed(rows, ids, set_state) ==
    [i \in 1..Len(rows) |->
        IF \E u \in 1..Len(ids) : ids[u] = i
        THEN [rows[i] EXCEPT !.summary = "summary", !.state = set_state]
        ELSE rows[i]]

\* the read_messages table when Step 3 starts: Step 2 has left clean rows, earlier runs
\* summarized, deduplicated and error rows
InitSummarizeVars ==
    /\ z_pc = "s3"
    /\ z_rows \in UNION {[1..n -> {[state |-> st, long |-> lg,
                                    summary |-> IF st \in {"summarized", "deduplicated"}
                                                THEN "summary" ELSE "",
                                    error |-> IF st = "error"
                                              THEN "Summarization returned None" ELSE ""] :
                                      st \in {"clean", "summarized", "deduplicated", "error"},
                                      lg \in BOOLEAN}] : n \in 1..MaxSummarize}
    /\ z_before = z_rows
    /\ z_list = <<>>
    /\ z_i = 1
    /\ z_summarized = <<>>
    /\ z_error_updates = <<>>
    /\ z_response = [i \in DOMAIN z_rows |-> <<>>]

IdleSummarizeVars ==
    /\ z_pc = "done"
    /\ z_rows = <<>>
    /\ z_before = <<>>
    /\ z_list = <<>>
    /\ z_i = 1
    /\ z_summarized = <<>>
    /\ z_error_updates = <<>>
    /\ z_response = <<>>

\* processor.py:421-425
Step3Load ==
    /\ z_pc = "s3"
    /\ z_list' = Ascending(get_messages_by_state(z_rows, "clean", 50))
    /\ z_pc' = "loop"
    /\ UNCHANGED <<z_rows, z_before, z_i, z_summarized, z_error_updates, z_response,
                   nonSummarizeVars>>

\* processor.py:426-438: one round of the loop
Step3SummarizeOne ==
    /\ z_pc = "loop"
    /\ z_i <= Len(z_list)
    /\ \E answer \in Responses :
        LET id == z_list[z_i]
            summarized_msg == summarize_read_message(answer)
        IN  /\ z_response' = [z_response EXCEPT ![id] = Append(@, answer)]
            /\ IF summarized_msg = <<>>
               THEN /\ z_error_updates' =
                          Append(z_error_updates, <<id, "Summarization returned None">>)
                    /\ z_summarized' = z_summarized
               ELSE /\ z_summarized' = Append(z_summarized, id)
                    /\ z_error_updates' = z_error_updates
    /\ z_i' = z_i + 1
    /\ UNCHANGED <<z_pc, z_rows, z_before, z_list, nonSummarizeVars>>

\* processor.py:440-446: the two batch updates
Step3Write ==
    /\ z_pc = "loop"
    /\ z_i > Len(z_list)
    /\ z_rows' = batch_update_read_messages_error(
                     batch_update_read_messages_parsed(z_rows, z_summarized, "summarized"),
                     z_error_updates)
    /\ z_pc' = "done"
    /\ UNCHANGED <<z_before, z_list, z_i, z_summarized, z_error_updates, z_response,
                   nonSummarizeVars>>

(***************************************************************************)
(* utils/processor.py, Step 1: the messages of the window that are not in  *)
(* read_messages yet are inserted.  A channel's message t was posted on    *)
(* day t.                                                                  *)
(***************************************************************************)
MaxTelegramId == 2
MaxIngestRuns == 3

\* reader.py:86-94: a marked channel id and a chat id
ChannelIds == {-1001, -52}

\* reader.py:164: channel_id=str(channel_id)
str(channel_id) == IF channel_id = -1001 THEN "-1001" ELSE "-52"

\* messages.py:593-608: the keys of keys_to_check that some row has, whatever its state
get_existing_message_keys_read_only(rows, keys_to_check) ==
    {key \in keys_to_check :
        \E k \in DOMAIN rows : /\ rows[k].telegram_id = key[1]
                               /\ rows[k].channel_id = key[2]
                               /\ rows[k].state = "read"}

get_existing_message_keys(rows, keys_to_check) ==
    {key \in keys_to_check :
        \E k \in DOMAIN rows : rows[k].telegram_id = key[1] /\ rows[k].channel_id = key[2]}

\* reader.py:128-172: the messages of the channel from min_date to max_date, oldest
\* first, without those the filters skip; kept is what the filters let through
fetch_raw_messages(channel_id, min_date, max_date, kept) ==
    LET ids == Ascending({t \in kept : t >= min_date /\ t <= max_date})
    IN  [j \in 1..Len(ids) |->
            [telegram_id |-> ids[j], channel_id |-> str(channel_id), state |-> "read"]]

InitIngestVars ==
    /\ i_pc = "idle"
    /\ i_rows = <<>>
    /\ i_window = <<1, 1>>
    /\ i_channels = {}
    /\ i_all_new = <<>>
    /\ i_runs = 0

IdleIngestVars ==
    /\ i_pc = "done"
    /\ i_rows = <<>>
    /\ i_window = <<1, 1>>
    /\ i_channels = {}
    /\ i_all_new = <<>>
    /\ i_runs = 0

\* processor.py:140-144: a run starts Step 1 over its window; between two runs the
\* later steps of the pipeline may have moved rows on from state read
Step1Start ==
    /\ i_pc \in {"idle", "done"}
    /\ i_runs < MaxIngestRuns
    /\ \E from_datetime \in 1..MaxTelegramId, to_datetime \in 1..MaxTelegramId :
        /\ from_datetime <= to_datetime
        /\ i_window' = <<from_datetime, to_datetime>>
    /\ \E parsed \in SUBSET {k \in DOMAIN i_rows : i_rows[k].state = "read"} :
        i_rows' = [k \in DOMAIN i_rows |->
                      IF k \in parsed THEN [i_rows[k] EXCEPT !.state = "clean"]
                      ELSE i_rows[k]]
    /\ i_channels' = ChannelIds
    /\ i_all_new' = <<>>
    /\ i_runs' = i_runs + 1
    /\ i_pc' = "fetching"
    /\ UNCHANGED nonIngestVars

\* processor.py:145-155: one channel of the folder
Step1Channel(channel_id) ==
    /\ i_pc = "fetching"
    /\ channel_id \in i_channels
    /\ \E kept \in SUBSET (1..MaxTelegramId) :
        LET raw_messages == fetch_raw_messages(channel_id, i_window[1], i_window[2], kept)
            keys_to_check == {<<raw_messages[j].telegram_id, raw_messages[j].channel_id>> :
                                 j \in 1..Len(raw_messages)}
            existing_keys == get_existing_message_keys(i_rows, keys_to_check)
            new_messages == SelectSeq(raw_messages,
                               LAMBDA msg : <<msg.telegram_id, msg.channel_id>>
                                               \notin existing_keys)
        IN  i_all_new' = i_all_new \o new_messages
    /\ i_channels' = i_channels \ {channel_id}
    /\ UNCHANGED <<i_pc, i_rows, i_window, i_runs, nonIngestVars>>

\* processor.py:157-162 with messages.py:441-478: the batch insert
Step1Insert ==
    /\ i_pc = "fetching"
    /\ i_channels = {}
    /\ i_rows' = i_rows \o i_all_new
    /\ i_pc' = "done"
    /\ UNCHANGED <<i_window, i_channels, i_all_new, i_runs, nonIngestVars>>

(***************************************************************************)
(* utils/processor.py: the calls of _train_scorer in a run, by the cold    *)
(* start of Step 5.5 and by Step 7.5.                                      *)
(***************************************************************************)
MaxRetrainRuns == 3

\* processor.py:795: the test that guards the training of Step 7.5
retrain_due_zero_only(full_refresh, sample_count) == sample_count = 0

retrain_due(full_refresh, sample_count) == full_refresh \/ sample_count = 0

\* processor.py:80-118 with scorer.py:185: the examples found are added to sample_count
train_scorer(sample_count, trained) == Min(sample_count + trained, MaxTrained)

InitRetrainVars ==
    /\ rt_pc = "sleep"
    /\ rt_sample_count \in 0..MaxTrained
    /\ rt_cache_empty = TRUE
    /\ rt_last_range = None
    /\ rt_window = <<0, 0>>
    /\ rt_need_full_refresh = FALSE
    /\ rt_run = [count0 |-> rt_sample_count, refreshed |-> FALSE, calls55 |-> 0,
                 calls75 |-> 0]
    /\ rt_runs = 0

IdleRetrainVars ==
    /\ rt_pc = "done"
    /\ rt_sample_count = 0
    /\ rt_cache_empty = TRUE
    /\ rt_last_range = None
    /\ rt_window = <<0, 0>>
    /\ rt_need_full_refresh = FALSE
    /\ rt_run = [count0 |-> 0, refreshed |-> FALSE, calls55 |-> 0, calls75 |-> 0]
    /\ rt_runs = 0

\* main.py:67-74 and processor.py:406-565: a run starts and reaches Step 5.5
RetrainStartRun ==
    /\ rt_pc \in {"sleep", "done"}
    /\ rt_runs < MaxRetrainRuns
    /\ \E now \in Times :
        /\ now >= rt_window[2]
        /\ rt_window' = <<rt_window[2], now>>
    /\ rt_run' = [count0 |-> rt_sample_count, refreshed |-> FALSE, calls55 |-> 0,
                  calls75 |-> 0]
    /\ rt_need_full_refresh' = FALSE
    /\ rt_runs' = rt_runs + 1
    /\ rt_pc' = "s55"
    /\ UNCHANGED <<rt_sample_count, rt_cache_empty, rt_last_range, nonRetrainVars>>

\* processor.py:569-575: the cold start of Step 5.5; Steps 5.5 to 6.5 follow
RetrainStep55 ==
    /\ rt_pc = "s55"
    /\ IF needs_cold_start(rt_sample_count)
       THEN /\ \E trained \in 0..MaxTrained :
                  rt_sample_count' = train_scorer(rt_sample_count, trained)
            /\ rt_run' = [rt_run EXCEPT !.calls55 = @ + 1]
       ELSE UNCHANGED <<rt_sample_count, rt_run>>
    /\ rt_pc' = "s7"
    /\ UNCHANGED <<rt_cache_empty, rt_last_range, rt_window, rt_need_full_refresh, rt_runs,
                   nonRetrainVars>>

\* processor.py:687-791: Step 7 runs for a non-empty sent_for_emodji only, and Step 7.5
\* is part of that branch; the cache is refreshed in full or topped up
RetrainStep7 ==
    /\ rt_pc = "s7"
    /\ \E sent_for_emodji_nonempty \in BOOLEAN :
        IF sent_for_emodji_nonempty
        THEN \E full \in {should_refresh(IF rt_cache_empty THEN <<>> ELSE [c \in {OutputChannel} |-> 0],
                                          rt_last_range, rt_window[2])} :
                /\ rt_need_full_refresh' = full
                /\ rt_cache_empty' = FALSE
                /\ rt_last_range' = IF full THEN rt_window ELSE rt_last_range
                /\ rt_run' = [rt_run EXCEPT !.refreshed = full]
                /\ rt_pc' = "s75"
        ELSE /\ rt_pc' = "done"
             /\ UNCHANGED <<rt_need_full_refresh, rt_cache_empty, rt_last_range, rt_run>>
    /\ UNCHANGED <<rt_sample_count, rt_window, rt_runs, nonRetrainVars>>

\* processor.py:792-801
RetrainStep75 ==
    /\ rt_pc = "s75"
    /\ IF retrain_due(rt_need_full_refresh, rt_sample_count)
       THEN /\ \E trained \in 0..MaxTrained :
                  rt_sample_count' = train_scorer(rt_sample_count, trained)
            /\ rt_run' = [rt_run EXCEPT !.calls75 = @ + 1]
       ELSE UNCHANGED <<rt_sample_count, rt_run>>
    /\ rt_pc' = "done"
    /\ UNCHANGED <<rt_cache_empty, rt_last_range, rt_window, rt_need_full_refresh, rt_runs,
                   nonRetrainVars>>

(***************************************************************************)
(* The life of a SentMessage over several runs (processor.py Steps 4 to    *)
(* 6.5, sender.py)                                                         *)
(***************************************************************************)

MaxItems == 2
MaxLifeRuns == 2

NoTelegramId == 0

SentStates == {"new", "to_update", "to_send", "no_send", "low_score", "sent", "error"}

\* processor.py:484: SentMessage(read_message_id=msg.id, message_dttm=msg.msg_dttm, state='new')
new_sent_to_send(required_tag) ==
    [state |-> "to_send", telegram_id |-> NoTelegramId, required_tag |-> required_tag,
     prediction_score |-> None, bot_reaction |-> ""]

new_sent(required_tag) ==
    [state |-> "new", telegram_id |-> NoTelegramId, required_tag |-> required_tag,
     prediction_score |-> None, bot_reaction |-> ""]

\* processor.py:549-553: the state Step 5 gives a row whose read message was found
gate_state(row) == IF row.required_tag THEN "to_send" ELSE "no_send"

\* processor.py:603-611: the state Step 5.5 gives a scored to_send row
prescore_state(row, score, draw) ==
    IF demoted(score, draw) THEN "low_score" ELSE row.state

\* sender.py:40-75 and 78-124: the row after send_or_update_message
sender_row(row, k, ok) ==
    IF row.telegram_id = NoTelegramId
    THEN IF ok THEN [row EXCEPT !.telegram_id = k, !.state = "sent"]
               ELSE [row EXCEPT !.state = "error"]
    ELSE IF ok THEN [row EXCEPT !.state = "sent"]
               ELSE [row EXCEPT !.state = "error"]

LifeScores == {scorer_neg_threshold, MaxScore}
LifeDraws == {low_score_send_probability - 1, low_score_send_probability}

InitLifeVars ==
    /\ l_rows = <<>>
    /\ l_pc = "idle"
    /\ l_runs = 0
    /\ l_mock \in BOOLEAN

IdleLifeVars ==
    /\ l_rows = <<>>
    /\ l_pc = "idle"
    /\ l_runs = 0
    /\ l_mock = FALSE

\* main.py:70: the worker calls process_messages
LifeStartRun ==
    /\ l_pc = "idle"
    /\ l_runs < MaxLifeRuns
    /\ l_runs' = l_runs + 1
    /\ l_pc' = "step4"
    /\ UNCHANGED <<l_rows, l_mock, nonLifeVars>>

\* processor.py:448-511 (Step 4): every unlinked summarized message is either linked to
\* an existing row, which becomes to_update, or gets a row of its own in state new; a row
\* made in this batch has no id yet and is never the target of a link
LifeStep4 ==
    /\ l_pc = "step4"
    /\ \E dups \in SUBSET DOMAIN l_rows, tags \in UNION {[1..n -> BOOLEAN] : n \in 0..MaxItems} :
          /\ Len(l_rows) + Len(tags) <= MaxItems
          /\ l_rows' = [k \in DOMAIN l_rows |->
                          IF k \in dups THEN [l_rows[k] EXCEPT !.state = "to_update"]
                                        ELSE l_rows[k]]
                       \o [i \in DOMAIN tags |-> new_sent(tags[i])]
    /\ l_pc' = "step5"
    /\ UNCHANGED <<l_runs, l_mock, nonLifeVars>>

\* processor.py:516-563 (Step 5): rows in new or to_update are rendered and gated
LifeStep5 ==
    /\ l_pc = "step5"
    /\ l_rows' = [k \in DOMAIN l_rows |->
                    IF l_rows[k].state \in {"new", "to_update"}
                    THEN [l_rows[k] EXCEPT !.state = gate_state(l_rows[k])]
                    ELSE l_rows[k]]
    /\ l_pc' = "step55"
    /\ UNCHANGED <<l_runs, l_mock, nonLifeVars>>

\* processor.py:577-620 (Step 5.5): every to_send row is scored, its bot_reaction written
\* as NULL, and a low score demotes it unless the random draw lets it through
LifeStep55 ==
    /\ l_pc = "step55"
    /\ LET scored == {k \in DOMAIN l_rows : l_rows[k].state = "to_send"}
       IN  \E score \in [scored -> LifeScores], draw \in [scored -> LifeDraws] :
              l_rows' = [k \in DOMAIN l_rows |->
                           IF k \in scored
                           THEN [l_rows[k] EXCEPT !.prediction_score = <<score[k]>>,
                                    !.bot_reaction = "",
                                    !.state = prescore_state(l_rows[k], score[k], draw[k])]
                           ELSE l_rows[k]]
    /\ l_pc' = "step6"
    /\ UNCHANGED <<l_runs, l_mock, nonLifeVars>>

\* processor.py:624-649 (Step 6): every to_send row is sent or edited, except in mock mode
LifeStep6 ==
    /\ l_pc = "step6"
    /\ LET to_send == {k \in DOMAIN l_rows : l_rows[k].state = "to_send"}
       IN  IF l_mock
           THEN l_rows' = l_rows
           ELSE \E ok \in [to_send -> BOOLEAN] :
                   l_rows' = [k \in DOMAIN l_rows |->
                                IF k \in to_send THEN sender_row(l_rows[k], k, ok[k])
                                                 ELSE l_rows[k]]
    /\ l_pc' = "step65"
    /\ UNCHANGED <<l_runs, l_mock, nonLifeVars>>

\* processor.py:651-681 (Step 6.5): a sent row with a score, a telegram_id and no
\* bot_reaction gets the reaction of its score, when the transport accepts it
LifeStep65 ==
    /\ l_pc = "step65"
    /\ LET to_react == {k \in DOMAIN l_rows :
                          /\ l_rows[k].state = "sent"
                          /\ l_rows[k].prediction_score # None
                          /\ l_rows[k].bot_reaction = ""
                          /\ l_rows[k].telegram_id # NoTelegramId}
       IN  \E ok \in [to_react -> BOOLEAN] :
              l_rows' = [k \in DOMAIN l_rows |->
                           IF k \in to_react /\ (ok[k] \/ l_mock)
                           THEN [l_rows[k] EXCEPT !.bot_reaction =
                                    choose_bot_reaction(l_rows[k].prediction_score[1],
                                                        scorer_pos_threshold, scorer_neg_threshold)]
                           ELSE l_rows[k]]
    /\ l_pc' = "idle"
    /\ UNCHANGED <<l_runs, l_mock, nonLifeVars>>

\* processor.py:831-833: an exception of a step ends the run where it is
LifeRaise ==
    /\ l_pc \in {"step4", "step5", "step55", "step6", "step65"}
    /\ l_pc' = "idle"
    /\ UNCHANGED <<l_rows, l_runs, l_mock, nonLifeVars>>

(***************************************************************************)
(* The progress of read_messages rows over runs without end (main.py       *)
(* cron_worker, processor.py Steps 1 to 4)                                 *)
(***************************************************************************)

MaxProgress == 3

InitProgressVars ==
    /\ pg_rows = <<>>
    /\ pg_pc = "s1"

IdleProgressVars ==
    /\ pg_rows = <<>>
    /\ pg_pc = "off"

\* processor.py:411-413 (Step 1): the new messages of the window are inserted in state read
ProgressStep1 ==
    /\ pg_pc = "s1"
    /\ \E k \in 0..(MaxProgress - Len(pg_rows)) :
          pg_rows' = pg_rows \o [j \in 1..k |-> [state |-> "read", long |-> TRUE, link |-> NoId]]
    /\ pg_pc' = "s2"
    /\ UNCHANGED nonProgressVars

\* processor.py:184-190 (Step 2): every read row becomes clean; its cleaned text may be
\* shorter than 50 characters
ProgressStep2 ==
    /\ pg_pc = "s2"
    /\ LET to_parse == get_messages_by_state(pg_rows, "read", 0)
       IN  \E long \in [to_parse -> BOOLEAN] :
              pg_rows' = [i \in DOMAIN pg_rows |->
                            IF i \in to_parse
                            THEN [pg_rows[i] EXCEPT !.state = "clean", !.long = long[i]]
                            ELSE pg_rows[i]]
    /\ pg_pc' = "s3"
    /\ UNCHANGED nonProgressVars

\* processor.py:421-446 (Step 3): the clean rows of at least 50 characters are summarized
\* or set to error
ProgressStep3 ==
    /\ pg_pc = "s3"
    /\ LET to_summarize == get_messages_by_state(pg_rows, "clean", 50)
       IN  \E failed \in SUBSET to_summarize :
              pg_rows' = SetState(SetState(pg_rows, to_summarize \ failed, "summarized"),
                                  failed, "error")
    /\ pg_pc' = "s4"
    /\ UNCHANGED nonProgressVars

\* processor.py:450-511 (Step 4): every summarized row without a link is linked to a
\* SentMessage, an existing or a new one, and set to deduplicated
ProgressStep4 ==
    /\ pg_pc = "s4"
    /\ LET msgs == Ascending(get_summarized_unlinked_messages(pg_rows))
       IN  pg_rows' = batch_link_read_messages_to_sent(pg_rows,
                          [j \in 1..Len(msgs) |-> <<msgs[j], 1>>])
    /\ pg_pc' = "s5"
    /\ UNCHANGED nonProgressVars

\* processor.py:516-829 and main.py:65-86: Steps 5 to 8 leave read_messages alone, the
\* run returns and the worker starts the next one
ProgressNextRun ==
    /\ pg_pc = "s5"
    /\ pg_pc' = "s1"
    /\ UNCHANGED <<pg_rows, nonProgressVars>>

\* processor.py:831-833 and main.py:75-76: an exception of a step ends the run; the worker
\* logs it and starts the next run
ProgressRaise ==
    /\ pg_pc \in {"s1", "s2", "s3", "s4", "s5"}
    /\ pg_pc' = "s1"
    /\ UNCHANGED <<pg_rows, nonProgressVars>>

(***************************************************************************)
(* The windows of one cron_worker (main.py:52-86) and their ingestion      *)
(***************************************************************************)

MaxCronRuns == 3

InitWindowVars ==
    /\ cw_prev_run \in {t \in Times : Date(t) = 0}
    /\ cw_window = None
    /\ cw_pc = "sleep"
    /\ cw_ingested = {}
    /\ cw_done = <<>>
    /\ cw_failed = FALSE

IdleWindowVars ==
    /\ cw_prev_run = 0
    /\ cw_window = None
    /\ cw_pc = "off"
    /\ cw_ingested = {}
    /\ cw_done = <<>>
    /\ cw_failed = FALSE

\* main.py:67-68: next_run = now if prev_run + timedelta(hours=48) > now
\*                           else prev_run + timedelta(hours=48)
next_run_of(prev, now) ==
    IF prev + CatchUpHours > now THEN now ELSE prev + CatchUpHours

\* main.py:77: prev_run = next_run, after the try statement
prev_run_after(win, failed) == win[2]

\* main.py:65-74: the worker wakes up and calls process_messages(prev_run, next_run)
WindowStartRun ==
    /\ cw_pc = "sleep"
    /\ Len(cw_done) < MaxCronRuns
    /\ \E now \in Times :
        /\ now >= cw_prev_run
        /\ cw_window' = <<cw_prev_run, next_run_of(cw_prev_run, now)>>
    /\ cw_pc' = "s1"
    /\ UNCHANGED <<cw_prev_run, cw_ingested, cw_done, cw_failed, nonWindowVars>>

\* processor.py:123-163, 411-413: Step 1 fetches the messages of the window and inserts
\* the new ones
WindowStep1 ==
    /\ cw_pc = "s1"
    /\ cw_ingested' = cw_ingested \cup {cw_window}
    /\ cw_pc' = "later"
    /\ UNCHANGED <<cw_prev_run, cw_window, cw_done, cw_failed, nonWindowVars>>

\* processor.py:415-829: Steps 2 to 8 return
WindowLaterSteps ==
    /\ cw_pc = "later"
    /\ cw_pc' = "finish"
    /\ UNCHANGED <<cw_prev_run, cw_window, cw_ingested, cw_done, cw_failed, nonWindowVars>>

\* main.py:75-76: process_messages raises, in Step 1 or later, and the worker logs it
WindowRunRaises ==
    /\ cw_pc \in {"s1", "later"}
    /\ cw_failed' = TRUE
    /\ cw_pc' = "finish"
    /\ UNCHANGED <<cw_prev_run, cw_window, cw_ingested, cw_done, nonWindowVars>>

\* main.py:77-84: prev_run = next_run, then the sleep
WindowFinishRun ==
    /\ cw_pc = "finish"
    /\ cw_prev_run' = prev_run_after(cw_window, cw_failed)
    /\ cw_done' = Append(cw_done, cw_window)
    /\ cw_window' = None
    /\ cw_failed' = FALSE
    /\ cw_pc' = "sleep"
    /\ UNCHANGED <<cw_ingested, nonWindowVars>>

(***************************************************************************)
(* Specifications                                                          *)
(***************************************************************************)
\* main.py:53-64: the first prev_run comes from the table or from default_start_date
InitPrevRun == prev_run \in {t \in Times : Date(t) = 0}

InitDigest ==
    /\ InitCache
    /\ InitPrevRun
    /\ is_mock \in BOOLEAN
    /\ InitCronVars
    /\ IdleDedup
    /\ InitPipeVars
    /\ InitScorerVars
    /\ IdleGateVars
    /\ IdleSendVars
    /\ IdleReactVars
    /\ IdlePrescoreVars
    /\ IdleSummarizeVars
    /\ IdleIngestVars
    /\ IdleRetrainVars
    /\ IdleLifeVars
    /\ IdleProgressVars
    /\ IdleWindowVars

NextDigest ==
    \/ CronStartRun
    \/ EarlyStepsDone
    \/ Step7Opaque
    \/ Step8ShouldSendDigest
    \/ Step8Send
    \/ RunRaises
    \/ CronFinishRun

SpecDigest == InitDigest /\ [][NextDigest]_vars

InitAudience ==
    /\ InitCache
    /\ InitPrevRun
    /\ is_mock = FALSE
    /\ InitCronVars
    /\ IdleDedup
    /\ InitPipeVars
    /\ InitScorerVars
    /\ IdleGateVars
    /\ IdleSendVars
    /\ IdleReactVars
    /\ IdlePrescoreVars
    /\ IdleSummarizeVars
    /\ IdleIngestVars
    /\ IdleRetrainVars
    /\ IdleLifeVars
    /\ IdleProgressVars
    /\ IdleWindowVars

NextAudience ==
    \/ CronStartRun
    \/ EarlyStepsDone
    \/ Step7ShouldRefresh
    \/ Step7Fetch
    \/ Step8Opaque
    \/ RunRaises
    \/ CronFinishRun

SpecAudience == InitAudience /\ [][NextAudience]_vars

InitCron ==
    /\ IdleCache
    /\ InitCronVars
    /\ IdleDedup
    /\ InitPipeVars
    /\ InitScorerVars
    /\ IdleGateVars
    /\ IdleSendVars
    /\ IdleReactVars
    /\ IdlePrescoreVars
    /\ IdleSummarizeVars
    /\ IdleIngestVars
    /\ IdleRetrainVars
    /\ IdleLifeVars
    /\ IdleProgressVars
    /\ IdleWindowVars

NextCron ==
    \/ StartCronEnter
    \/ StartCronResume
    \/ StopCronEnter
    \/ \E w \in Workers : StopCronResume(w)
    \/ \E w \in Workers : WorkerStart(w)
    \/ \E w \in Workers : WorkerGotDate(w)
    \/ \E w \in Workers : WorkerProcessed(w)
    \/ \E w \in Workers : WorkerWake(w)

SpecCron == InitCron /\ [][NextCron]_vars

InitDedup ==
    /\ IdleCache
    /\ InitCronVars
    /\ InitDedupVars
    /\ InitPipeVars
    /\ InitScorerVars
    /\ IdleGateVars
    /\ IdleSendVars
    /\ IdleReactVars
    /\ IdlePrescoreVars
    /\ IdleSummarizeVars
    /\ IdleIngestVars
    /\ IdleRetrainVars
    /\ IdleLifeVars
    /\ IdleProgressVars
    /\ IdleWindowVars

NextDedup == CheckDuplicate

SpecDedup == InitDedup /\ [][NextDedup]_vars

InitScorer ==
    /\ IdleCache
    /\ InitCronVars
    /\ IdleDedup
    /\ InitPipeVars
    /\ InitScorerVars
    /\ IdleGateVars
    /\ IdleSendVars
    /\ IdleReactVars
    /\ IdlePrescoreVars
    /\ IdleSummarizeVars
    /\ IdleIngestVars
    /\ IdleRetrainVars
    /\ IdleLifeVars
    /\ IdleProgressVars
    /\ IdleWindowVars

NextScorer ==
    \E t \in Threads :
        \/ PredictCall(t)
        \/ TrainCall(t)
        \/ LockAcquire(t)
        \/ PredictCheck(t)
        \/ PredictScore(t)
        \/ TrainTags(t)
        \/ TrainEmbed(t)
        \/ TrainBuild(t)
        \/ TrainFit(t)
        \/ TrainSave(t)

SpecScorer == InitScorer /\ [][NextScorer]_vars

NextScorerCrash ==
    \/ NextScorer
    \/ CrashReload
    \/ \E t \in Threads : TrainSaveInterrupted(t)

SpecScorerCrash == InitScorer /\ [][NextScorerCrash]_vars

InitGate ==
    /\ IdleCache
    /\ InitCronVars
    /\ IdleDedup
    /\ InitPipeVars
    /\ InitScorerVars
    /\ InitGateVars
    /\ IdleSendVars
    /\ IdleReactVars
    /\ IdlePrescoreVars
    /\ IdleSummarizeVars
    /\ IdleIngestVars
    /\ IdleRetrainVars
    /\ IdleLifeVars
    /\ IdleProgressVars
    /\ IdleWindowVars

NextGate == Step5Generate \/ Step5Raises

SpecGate == InitGate /\ [][NextGate]_vars

InitSend ==
    /\ IdleCache
    /\ InitCronVars
    /\ IdleDedup
    /\ InitPipeVars
    /\ InitScorerVars
    /\ IdleGateVars
    /\ InitSendVars
    /\ IdleReactVars
    /\ IdlePrescoreVars
    /\ IdleSummarizeVars
    /\ IdleIngestVars
    /\ IdleRetrainVars
    /\ IdleLifeVars
    /\ IdleProgressVars
    /\ IdleWindowVars

NextSend ==
    \/ Step6Load
    \/ \E k \in 1..MaxSend : TaskStart(k)
    \/ \E k \in 1..MaxSend : ProcessOne(k)
    \/ Step6Done
    \/ LaterRun

SpecSend == InitSend /\ [][NextSend]_vars

\* the event loop runs every task that can run, and every POST ends within its timeout
SpecSendFair ==
    /\ SpecSend
    /\ \A k \in 1..MaxSend : WF_vars(TaskStart(k)) /\ WF_vars(ProcessOne(k))

InitReaction ==
    /\ IdleCache
    /\ InitCronVars
    /\ IdleDedup
    /\ InitPipeVars
    /\ InitScorerVars
    /\ IdleGateVars
    /\ IdleSendVars
    /\ InitReactVars
    /\ IdlePrescoreVars
    /\ IdleSummarizeVars
    /\ IdleIngestVars
    /\ IdleRetrainVars
    /\ IdleLifeVars
    /\ IdleProgressVars
    /\ IdleWindowVars

NextReaction == Step65React \/ TrainLabel

SpecReaction == InitReaction /\ [][NextReaction]_vars

InitPrescore ==
    /\ IdleCache
    /\ InitCronVars
    /\ IdleDedup
    /\ InitPipeVars
    /\ InitScorerVars
    /\ IdleGateVars
    /\ IdleSendVars
    /\ IdleReactVars
    /\ InitPrescoreVars
    /\ IdleSummarizeVars
    /\ IdleIngestVars
    /\ IdleRetrainVars
    /\ IdleLifeVars
    /\ IdleProgressVars
    /\ IdleWindowVars

NextPrescore == Step55ColdStart \/ Step55Score

SpecPrescore == InitPrescore /\ [][NextPrescore]_vars

InitSummarize ==
    /\ IdleCache
    /\ InitCronVars
    /\ IdleDedup
    /\ InitPipeVars
    /\ InitScorerVars
    /\ IdleGateVars
    /\ IdleSendVars
    /\ IdleReactVars
    /\ IdlePrescoreVars
    /\ InitSummarizeVars
    /\ IdleIngestVars
    /\ IdleRetrainVars
    /\ IdleLifeVars
    /\ IdleProgressVars
    /\ IdleWindowVars

NextSummarize == Step3Load \/ Step3SummarizeOne \/ Step3Write

SpecSummarize == InitSummarize /\ [][NextSummarize]_vars

InitIngest ==
    /\ IdleCache
    /\ InitCronVars
    /\ IdleDedup
    /\ InitPipeVars
    /\ InitScorerVars
    /\ IdleGateVars
    /\ IdleSendVars
    /\ IdleReactVars
    /\ IdlePrescoreVars
    /\ IdleSummarizeVars
    /\ InitIngestVars
    /\ IdleRetrainVars
    /\ IdleLifeVars
    /\ IdleProgressVars
    /\ IdleWindowVars

NextIngest == Step1Start \/ (\E channel_id \in ChannelIds : Step1Channel(channel_id)) \/ Step1Insert

SpecIngest == InitIngest /\ [][NextIngest]_vars

InitRetrain ==
    /\ IdleCache
    /\ InitCronVars
    /\ IdleDedup
    /\ InitPipeVars
    /\ InitScorerVars
    /\ IdleGateVars
    /\ IdleSendVars
    /\ IdleReactVars
    /\ IdlePrescoreVars
    /\ IdleSummarizeVars
    /\ IdleIngestVars
    /\ InitRetrainVars
    /\ IdleLifeVars
    /\ IdleProgressVars
    /\ IdleWindowVars

NextRetrain == RetrainStartRun \/ RetrainStep55 \/ RetrainStep7 \/ RetrainStep75

SpecRetrain == InitRetrain /\ [][NextRetrain]_vars

InitLife ==
    /\ IdleCache
    /\ InitCronVars
    /\ IdleDedup
    /\ InitPipeVars
    /\ InitScorerVars
    /\ IdleGateVars
    /\ IdleSendVars
    /\ IdleReactVars
    /\ IdlePrescoreVars
    /\ IdleSummarizeVars
    /\ IdleIngestVars
    /\ IdleRetrainVars
    /\ InitLifeVars
    /\ IdleProgressVars
    /\ IdleWindowVars

NextLife ==
    \/ LifeStartRun \/ LifeStep4 \/ LifeStep5 \/ LifeStep55 \/ LifeStep6 \/ LifeStep65
    \/ LifeRaise

SpecLife == InitLife /\ [][NextLife]_vars

InitProgress ==
    /\ IdleCache
    /\ InitCronVars
    /\ IdleDedup
    /\ InitPipeVars
    /\ InitScorerVars
    /\ IdleGateVars
    /\ IdleSendVars
    /\ IdleReactVars
    /\ IdlePrescoreVars
    /\ IdleSummarizeVars
    /\ IdleIngestVars
    /\ IdleRetrainVars
    /\ IdleLifeVars
    /\ InitProgressVars
    /\ IdleWindowVars

NextProgress ==
    \/ ProgressStep1 \/ ProgressStep2 \/ ProgressStep3 \/ ProgressStep4
    \/ ProgressNextRun \/ ProgressRaise

\* the worker runs the pipeline again and again, and a step that is tried again and again
\* does not raise every time
SpecProgress ==
    /\ InitProgress /\ [][NextProgress]_vars
    /\ SF_vars(ProgressStep1) /\ SF_vars(ProgressStep2) /\ SF_vars(ProgressStep3)
    /\ SF_vars(ProgressStep4) /\ SF_vars(ProgressNextRun)

InitWindow ==
    /\ IdleCache
    /\ InitCronVars
    /\ IdleDedup
    /\ InitPipeVars
    /\ InitScorerVars
    /\ IdleGateVars
    /\ IdleSendVars
    /\ IdleReactVars
    /\ IdlePrescoreVars
    /\ IdleSummarizeVars
    /\ IdleIngestVars
    /\ IdleRetrainVars
    /\ IdleLifeVars
    /\ IdleProgressVars
    /\ InitWindowVars

NextWindow ==
    \/ WindowStartRun \/ WindowStep1 \/ WindowLaterSteps \/ WindowRunRaises
    \/ WindowFinishRun

SpecWindow == InitWindow /\ [][NextWindow]_vars

Init ==
    /\ IdleCache
    /\ InitCronVars
    /\ IdleDedup
    /\ InitPipeVars
    /\ InitScorerVars
    /\ IdleGateVars
    /\ IdleSendVars
    /\ IdleReactVars
    /\ IdlePrescoreVars
    /\ IdleSummarizeVars
    /\ IdleIngestVars
    /\ IdleRetrainVars
    /\ IdleLifeVars
    /\ IdleProgressVars
    /\ IdleWindowVars

Next ==
    \/ StartRun
    \/ Step1Read
    \/ Step2Clean
    \/ Step3Summarize
    \/ Step4Resolve
    \/ Step4Write
    \/ LaterSteps
    \/ StepRaises
    \/ FinishRun

Spec == Init /\ [][Next]_vars

NextCrash == Next \/ Step4WriteInterrupted

SpecCrash == Init /\ [][NextCrash]_vars

\* C5: at most one cron_worker task exists and at most one process_messages invocation is
\* in progress at any time, under every interleaving of start_cron and stop_cron requests.
C5_SingleWorker ==
    /\ Cardinality({w \in Workers : wstate[w] \notin {"unborn", "done"}}) <= 1
    /\ Cardinality({w \in Workers : wstate[w] = "processing"}) <= 1

(***************************************************************************)
(* Claims about the digest scheduler and the subscribers cache            *)
(***************************************************************************)

\* C7: over the runs of a cron worker whose to_datetime is on one calendar day, a daily
\* digest is sent (and marked sent) in at most one run, however many of their windows
\* contain 12:00 of that day.
C7_DigestAtMostOncePerDay == digestSent <= 1

\* Two calls of should_send_digest on one day had 12:00 in their window, one digest was sent.
C7_Witness == cpc = "finish" /\ trigRuns = 2 /\ digestSent = 1

\* C8: right after should_send_digest(from, to), the result is a window exactly when 12:00
\* of to's date lies in [from, to] and no digest was marked sent for the previous day, and
\* the window is the previous day from its first to its last instant.
C8_DigestTrigger ==
    cpc = "s8send" =>
        LET yesterday == Date(window[2]) - 1
        IN  /\ digest_range # None <=> (InTrigger(window) /\ yesterday \notin markedDays)
            /\ digest_range # None => digest_range = <<DayMin(yesterday), DayMax(yesterday)>>

\* The example of the claim on day 1: the call with 09:00..13:00 returned day 0 and it was
\* marked sent; the call with 13:00..15:00 now returns none.
C8_Witness ==
    /\ cpc = "s8send"
    /\ window = <<DayMin(1) + 13, DayMin(1) + 15>>
    /\ hist_day = <<1>> /\ trigRuns = 1 /\ digestSent = 1
    /\ markedDays = {0}
    /\ digest_range = None

\* C9: the first should_refresh call (empty cache) returns true; the second call, when its
\* to_datetime is on the same calendar day as the first call's, returns false.
C9_RefreshFirstThenSameDay ==
    cpc = "s7fetch" =>
        /\ refresh_calls = 1 => need_full_refresh
        /\ (refresh_calls = 2 /\ first_refresh_day = <<Date(window[2])>>) => ~need_full_refresh

\* The second call, on the day of the first, has just returned false.
C9_Witness ==
    /\ cpc = "s7fetch"
    /\ refresh_calls = 2
    /\ first_refresh_day = <<Date(window[2])>>
    /\ ~need_full_refresh

(***************************************************************************)
(* Claims about the pipeline                                               *)
(***************************************************************************)
StateRank == [st \in {"read", "clean", "summarized", "deduplicated"} |->
                IF st = "read" THEN 0 ELSE IF st = "clean" THEN 1
                ELSE IF st = "summarized" THEN 2 ELSE 3]

\* C1: in every step of every sequence of runs, the state of a read_messages row stays as
\* it is, moves to error, or moves forward along read, clean, summarized, deduplicated; a
\* row in error never leaves it.
C1_StateForwardOnly ==
    [][\A i \in ReadIds :
          \/ read'[i].state = read[i].state
          \/ read'[i].state = "error"
          \/ /\ read[i].state # "error"
             /\ StateRank[read'[i].state] > StateRank[read[i].state]]_vars

\* A later run has passed Steps 2, 3 and 4 over a table that already held a deduplicated
\* row and a row in error.
C1_Witness ==
    /\ ppc = "s5" /\ runs = 2
    /\ messages_to_process # <<>>
    /\ \E i, j \in ReadIds :
        /\ i \notin {messages_to_process[k] : k \in 1..Len(messages_to_process)}
        /\ read[i].state = "deduplicated"
        /\ read[j].state = "error"

\* C2: in every step of every sequence of runs, a row whose sent_message_id is set keeps
\* that value: it is neither changed to another id nor reset to NULL.
C2_LinkSetOnce ==
    [][\A i \in ReadIds : read[i].link # NoId => read'[i].link = read[i].link]_vars

\* A later run has linked a new batch while an earlier row, linked by the run before, has
\* kept its link.
C2_Witness ==
    /\ ppc = "s5" /\ runs = 2
    /\ new_links # <<>>
    /\ \E i \in ReadIds :
        /\ i \notin {messages_to_process[k] : k \in 1..Len(messages_to_process)}
        /\ read[i].link # NoId /\ read[i].link <= sent_before

\* C3: after Stage 4, whenever the oracle confirmed a message of the batch against an
\* earlier message of the same batch (retained by the lexical stage), both are linked to
\* the same PublishedItem.
C3_InBatchDuplicateMerged ==
    ppc = "s5" =>
        \A p \in confirmed :
            p[2] \in {messages_to_process[k] : k \in 1..Len(messages_to_process)} =>
                read[p[1]].link = read[p[2]].link

\* The run of C4: it ingested three raw items, and they are the batch of Stage 4; the
\* oracle confirmed one of them against the primary message of a PublishedItem that
\* existed before the run; the two others are of stories no existing PublishedItem is
\* about, and of two different stories.
C4_Scenario ==
    /\ ppc = "s5"
    /\ funnel.read = 3
    /\ messages_to_process = <<Len(read) - 2, Len(read) - 1, Len(read)>>
    /\ \E d \in (Len(read) - 2)..Len(read) :
        /\ \E k \in 1..sent_before : <<d, sent[k]>> \in confirmed
        /\ \A x, y \in ((Len(read) - 2)..Len(read)) \ {d} :
            /\ \A k \in 1..sent_before : read[sent[k]].story # read[x].story
            /\ x # y => read[x].story # read[y].story

\* C4 as stated: in that run the funnel reports read = 3 and sent = 3, one PublishedItem
\* is created and one existing PublishedItem is set to to_update.
C4_FunnelOneCreated ==
    C4_Scenario =>
        /\ funnel = [read |-> 3, sent |-> 3]
        /\ Len(sent) = sent_before + 1
        /\ Cardinality(marked_to_update) = 1

\* C4, amended: in that run the funnel reports read = 3 and sent = 3, two PublishedItems
\* are created (one per novel item) and one existing PublishedItem is set to to_update.
C4_FunnelTwoCreated ==
    C4_Scenario =>
        /\ funnel = [read |-> 3, sent |-> 3]
        /\ Len(sent) = sent_before + 2
        /\ Cardinality(marked_to_update) = 1
        /\ \A k \in marked_to_update : k <= sent_before

\* The run of C4 has ended Stage 4 with two PublishedItems created and one updated.
C4_Witness ==
    /\ C4_Scenario
    /\ Len(sent) = sent_before + 2
    /\ Len(dup_links) = 1

\* C6: when a stage of a run has raised, the run has still entered all eight stages.
C6_StageFailureIsolated ==
    (ppc = "done" /\ raised # 0) => stages_run = 1..8

(***************************************************************************)
(* Claims about the duplicate resolution                                   *)
(***************************************************************************)

\* C10: when existing_sent is empty or the candidate has no headline, the call of
\* check_duplicate_tfidf_gpt returns no match, having made no call of check_pair_duplicate
\* and no call of find_similar_pairs.
C10_EmptyPoolNoCalls ==
    (d_pc = "returned" /\ (d_existing = <<>> \/ d_headline = <<>>)) =>
        /\ d_out.result = NoMatch
        /\ d_out.asked = <<>>
        /\ d_out.vec = 0

\* A candidate without a headline was resolved against a pool whose two members have
\* headlines, one of which the oracle would confirm.
C10_Witness ==
    /\ d_pc = "returned"
    /\ d_headline = <<>>
    /\ Len(ExistingHeadlines(d_existing, d_read)) = 2
    /\ d_yes # {}
    /\ d_out = [result |-> NoMatch, asked |-> <<>>, vec |-> 0]

\* the pool with every member identified by its position, and the retained members as
\* <<position, score>> in the order find_similar_pairs gives them
C11_Ranked ==
    find_similar_pairs(d_headline,
        ExistingHeadlines([k \in 1..Len(d_existing) |->
                              [id |-> k, read_message_id |-> d_existing[k].read_message_id]],
                          d_read))

\* C11: the oracle is asked about the retained pool members in descending order of their
\* score, one call per member, up to and including the first member it confirms, and the
\* call returns the id of that member (no match when it confirms none).
C11_OracleOrder ==
    (d_pc = "returned" /\ d_existing # <<>> /\ d_headline # <<>>) =>
        LET ranked == C11_Ranked
            queried == [j \in 1..Len(ranked) |-> d_existing[ranked[j][1]].read_message_id]
            yesAt == {j \in 1..Len(ranked) : queried[j] \in d_yes}
            first == CHOOSE j \in yesAt : \A i \in yesAt : j <= i
        IN  /\ \A j \in 1..(Len(ranked) - 1) : ranked[j][2] >= ranked[j + 1][2]
            /\ d_out.asked = SubSeq(queried, 1, IF yesAt = {} THEN Len(ranked) ELSE first)
            /\ d_out.result = IF yesAt = {} THEN NoMatch
                              ELSE <<d_existing[ranked[first][1]].id>>

(***************************************************************************)
(* Claims about the scorer                                                 *)
(***************************************************************************)

\* C12: a predict call that finds sample_count below the minimum, or no model, returns
\* exactly 0.5 and has not consulted the model (no feature vector, no predict_proba).
C12_ColdStart ==
    [][\A t \in Threads :
          (/\ sc_pc[t] = "p_check"
           /\ sc_pc'[t] # "p_check"
           /\ (sc_sample_count < scorer_min_samples \/ sc_model = None))
          => sc_ret'[t] = <<[score |-> ColdScore, consulted |-> FALSE]>>]_vars

\* A predict call returned 0.5 unconsulted although a model exists: the samples are still
\* below the minimum.
C12_Witness ==
    \E t \in Threads :
        /\ sc_ret[t] = <<[score |-> ColdScore, consulted |-> FALSE]>>
        /\ sc_model # None
        /\ sc_sample_count > 0
        /\ sc_sample_count < scorer_min_samples

C13_TrainInProgress(t) == sc_pc[t] \in {"t_embed", "t_build", "t_fit", "t_save"}

\* C13: known_tags never holds a tag twice; the known_tags a train call found is a prefix
\* of known_tags from then on; and outside of train calls the width of the model's coef_
\* is EmbeddingDim + FixedNumericDim + len(known_tags).
C13_KnownTagsAppendOnly ==
    /\ \A i, j \in 1..Len(sc_known_tags) : i # j => sc_known_tags[i] # sc_known_tags[j]
    /\ \A t \in Threads :
        C13_TrainInProgress(t) =>
            /\ Len(sc_args[t].tags_before) <= Len(sc_known_tags)
            /\ SubSeq(sc_known_tags, 1, Len(sc_args[t].tags_before)) = sc_args[t].tags_before
    /\ ((\A t \in Threads : ~C13_TrainInProgress(t)) /\ sc_model # None) =>
            Len(sc_model.coef_) = EmbeddingDim + FixedNumericDim + Len(sc_known_tags)

\* C14: when a train call that introduced a new tag has widened coef_, every weight of the
\* narrower coef_ is at its position in the wider one, every new position holds zero, and
\* for every example whose hashtags were all known before the call the weighted sum under
\* the wider coef_ (and the new known_tags) is the one under the narrower coef_ (and the
\* old known_tags).
C14_PaddingKeepsWeights ==
    \A t \in Threads :
        (/\ sc_pc[t] = "t_fit"
         /\ sc_args[t].coef_before # <<>>
         /\ Len(sc_args[t].tags_before) < Len(sc_known_tags)) =>
            LET old == sc_args[t].coef_before
                new == sc_model.coef_
            IN  /\ Len(new) > Len(old)
                /\ \A i \in 1..Len(old) : new[i] = old[i]
                /\ \A i \in (Len(old) + 1)..Len(new) : new[i] = 0
                /\ \A hashtags \in HashtagLists :
                    \A centroid \in {None, <<"mean">>} :
                        Range(hashtags) \subseteq Range(sc_args[t].tags_before) =>
                            DotFrom(new, pad_or_truncate(
                                build_feature_vector(hashtags, sc_known_tags, centroid),
                                Len(new)), 1)
                            = DotFrom(old, pad_or_truncate(
                                build_feature_vector(hashtags, sc_args[t].tags_before,
                                                     centroid),
                                Len(old)), 1)

\* A train call introduced a tag and widened a coef_ that holds a learned (nonzero)
\* weight for an older tag.
C14_Witness ==
    \E t \in Threads :
        /\ sc_pc[t] = "t_fit"
        /\ Len(sc_args[t].tags_before) < Len(sc_known_tags)
        /\ Len(sc_args[t].coef_before) > EmbeddingDim + FixedNumericDim
        /\ sc_args[t].coef_before[EmbeddingDim + FixedNumericDim + 1] # 0
        /\ Len(sc_model.coef_) > Len(sc_args[t].coef_before)

C15_InCriticalSection(t) ==
    sc_pc[t] \in {"p_check", "p_vec", "t_tags", "t_embed", "t_build", "t_fit", "t_save"}

\* C15: at most one thread is inside predict's or train's critical section, the thread
\* inside holds the lock, and every step that changes the scorer's state or its files is
\* a step of the thread that holds the lock.
C15_PredictTrainExclusive ==
    /\ [](/\ Cardinality({t \in Threads : C15_InCriticalSection(t)}) <= 1
          /\ \A t \in Threads : C15_InCriticalSection(t) => sc_lock = t)
    /\ [][<<sc_model, sc_known_tags, sc_sample_count, sc_centroid, sc_disk>>'
            # <<sc_model, sc_known_tags, sc_sample_count, sc_centroid, sc_disk>>
          => (sc_lock # 0 /\ C15_InCriticalSection(sc_lock)
              /\ sc_pc'[sc_lock] # sc_pc[sc_lock])]_vars

\* One thread is inside train, between padding and partial_fit, while the other waits for
\* the lock in predict.
C15_Witness ==
    \E t, u \in Threads :
        /\ sc_pc[t] = "t_fit"
        /\ sc_pc[u] = "p_lock"
        /\ sc_lock = t

(***************************************************************************)
(* Claims about Step 5                                                     *)
(***************************************************************************)

\* a tag without its leading '#' characters
C16_Stem(t) ==
    LET k == CHOOSE k \in 0..Len(t) :
                /\ \A i \in 1..k : t[i] = "#"
                /\ (k = Len(t) \/ t[k + 1] # "#")
    IN  SubSeq(t, k + 1, Len(t))

C16_SameTag(a, b) ==
    LET x == C16_Stem(a)
        y == C16_Stem(b)
    IN  /\ Len(x) = Len(y)
        /\ \A i \in 1..Len(x) : x[i] = y[i] \/ {x[i], y[i]} = {"n", "N"}

\* C16: when Step 5 has completed, every sent message that was in state new or to_update
\* and whose primary read message exists is in state to_send if one of the read message's
\* hashtags equals one of the required hashtags up to case and leading '#', and in state
\* no_send otherwise; hashtags ["o"] against required ["n"] give no_send and hashtags
\* ["n", "o"] give to_send.
C16_RequiredTagGate ==
    /\ g_pc = "done" =>
        \A k \in 1..Len(g_before) :
            (/\ g_before[k].state \in {"new", "to_update"}
             /\ g_before[k].read_message_id # 0
             /\ g_read[g_before[k].read_message_id].exists) =>
                g_sent[k].state =
                    IF \E a \in Range(g_read[g_before[k].read_message_id].hashtags) :
                          \E b \in Range(g_required) : C16_SameTag(a, b)
                    THEN "to_send" ELSE "no_send"
    /\ GateState([state |-> "new", read_message_id |-> 1, text |-> ""],
                 <<[exists |-> TRUE, hashtags |-> <<<<"o">>>>]>>, <<<<"n">>>>) = <<"no_send">>
    /\ GateState([state |-> "new", read_message_id |-> 1, text |-> ""],
                 <<[exists |-> TRUE, hashtags |-> <<<<"n">>, <<"o">>>>]>>, <<<<"n">>>>)
           = <<"to_send">>

\* Step 5 has completed; a to_update message passed the gate through a hashtag that
\* differs from the required one in case and in '#', and a new message was stopped.
C16_Witness ==
    /\ g_pc = "done"
    /\ g_required = <<<<"N">>>>
    /\ \E k, j \in 1..Len(g_before) :
        /\ g_before[k].state = "to_update"
        /\ g_before[k].read_message_id # 0
        /\ g_read[g_before[k].read_message_id].hashtags = <<<<"o">>, <<"#", "#", "n">>>>
        /\ g_sent[k].state = "to_send"
        /\ g_before[j].state = "new"
        /\ g_before[j].read_message_id # 0
        /\ g_read[g_before[j].read_message_id].hashtags = <<<<"#", "o">>>>
        /\ g_sent[j].state = "no_send"

(***************************************************************************)
(* Claims about Step 6                                                     *)
(***************************************************************************)

\* C17: every row whose send or edit failed is in state error with an error string, and
\* every row whose send or edit succeeded is in state sent with its telegram_id (the new
\* one and sent_at = now for a new send, the old one for an edit), whatever happened to
\* the other rows of the batch.
C17_OutcomesPersisted ==
    \A k \in DOMAIN s_rows :
        /\ s_outcome[k] \in {"rejected", "raised", "raised_empty"} =>
              s_rows[k].state = "error" /\ s_rows[k].error # ""
        /\ s_outcome[k] = "ok" =>
              /\ s_rows[k].state = "sent"
              /\ s_rows[k].telegram_id # 0
              /\ s_rows[k].telegram_id # OldTelegramId => s_rows[k].sent_at = Now

(***************************************************************************)
(* Claims about the bot reaction and the training label                    *)
(***************************************************************************)

\* C18: choose_bot_reaction returns the positive reaction when score >= the positive
\* threshold, the negative one when score <= the negative threshold and None otherwise;
\* with the configured thresholds the cold-start score 0.5 gives None, and Step 6.5 then
\* neither calls set_message_reaction nor records a bot reaction.
C18_ChooseBotReaction ==
    (r_pc = "done" /\ r_reactions = <<>>) =>
        /\ r_score >= r_thresholds[1] => r_chosen = "up"
        /\ r_score <= r_thresholds[2] => r_chosen = "down"
        /\ (r_score < r_thresholds[1] /\ r_score > r_thresholds[2]) => r_chosen = ""
        /\ (r_score = ColdScore
            /\ r_thresholds = <<scorer_pos_threshold, scorer_neg_threshold>>) =>
                r_chosen = "" /\ r_set_calls = <<>> /\ r_bot_reaction = ""

\* Step 6.5 has handled a message whose score is exactly the positive threshold: the
\* positive reaction was chosen and set.
C18_Witness ==
    /\ r_pc = "done"
    /\ r_score = r_thresholds[1]
    /\ r_chosen = "up"
    /\ r_set_calls = <<[emoji |-> "up", ok |-> TRUE]>>
    /\ r_bot_reaction = "up"

RECURSIVE C19_Sum(_, _)
C19_Sum(reactions, i) ==
    IF i > Len(reactions) THEN 0
    ELSE REACTION_WEIGHTS(reactions[i][1]) * reactions[i][2] + C19_Sum(reactions, i + 1)

\* C19: the weighted score is the sum of weight x count over all entries, less one weight
\* of the bot's reaction when a bot reaction is recorded and the first entry of that emoji
\* has a count of at least one (one unit from that entry, none from any other, no count
\* below zero); the label is 1 when the score is > 0 and 0 otherwise; without a recorded
\* bot reaction the score is the plain sum.
C19_TrainingLabel ==
    (r_pc = "done" /\ r_reactions # <<>>) =>
        LET at == {i \in 1..Len(r_reactions) : r_reactions[i][1] = r_bot_reaction}
            first == CHOOSE i \in at : \A j \in at : i <= j
            unit == IF r_bot_reaction # "" /\ at # {} /\ r_reactions[first][2] >= 1
                    THEN REACTION_WEIGHTS(r_bot_reaction) ELSE 0
        IN  /\ r_weighted = <<C19_Sum(r_reactions, 1) - unit>>
            /\ r_label = <<IF C19_Sum(r_reactions, 1) - unit > 0 THEN 1 ELSE 0>>
            /\ r_bot_reaction = "" => r_weighted = <<C19_Sum(r_reactions, 1)>>

\* A label was computed from reactions that hold the bot's emoji twice: only the first
\* entry lost a unit, and that turned the label from 1 to 0.
C19_Witness ==
    /\ r_pc = "done"
    /\ r_bot_reaction = "up"
    /\ r_reactions = <<<<"up", 1>>, <<"down", 1>>, <<"up", 1>>>>
    /\ r_weighted = <<0>>
    /\ r_label = <<0>>

(***************************************************************************)
(* Claims about interrupted runs                                           *)
(***************************************************************************)

\* C20: whatever runs were interrupted, among the writes of Stage 4 included, no read
\* message is the primary message of two SentMessages (no story has two SentMessages).
C20_OnePublishedItemPerPrimary ==
    \A i, j \in 1..Len(sent) : i # j => sent[i] # sent[j]

(***************************************************************************)
(* Claims about Stage 4, second part                                       *)
(***************************************************************************)

\* C21: when Stage 4 has written, every message of its batch is deduplicated and linked;
\* a message for which the resolution returned the id of an existing SentMessage is
\* linked to it and that SentMessage was set to to_update; for every other message
\* exactly one SentMessage was inserted by this run with the message as its
\* read_message_id (inserted with state new, and not set to to_update), and the message
\* is linked to it.
C21_Stage4Outcome ==
    ppc = "s5" =>
        \A j \in 1..Len(messages_to_process) :
            LET m == messages_to_process[j]
                dups == {d \in 1..Len(dup_links) : dup_links[d][1] = m}
                created == {k \in (sent_before + 1)..Len(sent) : sent[k] = m}
            IN  /\ read[m].state = "deduplicated"
                /\ read[m].link # NoId
                /\ dups # {} =>
                      /\ \A d \in dups : /\ read[m].link = dup_links[d][2]
                                         /\ dup_links[d][2] \in 1..sent_before
                                         /\ dup_links[d][2] \in marked_to_update
                      /\ created = {}
                /\ dups = {} =>
                      /\ Cardinality(created) = 1
                      /\ \A k \in created : read[m].link = k /\ k \notin marked_to_update

\* Stage 4 has written a batch of which one message was linked to an existing SentMessage
\* and another got a SentMessage of its own.
C21_Witness ==
    /\ ppc = "s5"
    /\ Len(messages_to_process) >= 2
    /\ Len(dup_links) = 1
    /\ Len(sent) = sent_before + Len(messages_to_process) - 1
    /\ read[dup_links[1][1]].link = dup_links[1][2]

\* what the resolution answers for message m against the SentMessages that existed when
\* the run started, with the oracle answering
C22_Resolution(m) ==
    LET existing_sent == get_sent_messages_for_dedup(SubSeq(sent, 1, sent_before))
        existing_read_ids == {existing_sent[k].read_message_id : k \in 1..Len(existing_sent)}
    IN  check_duplicate_tfidf_gpt(
            RowHeadline(read[m]), existing_sent,
            [r \in existing_read_ids |-> RowHeadline(read[r])],
            {r \in ReadIds : read[r].story = read[m].story})

\* C22: when Stage 4 has written, a message of its batch without hashtags whose headline
\* is retained against an existing SentMessage and confirmed by the oracle is linked to
\* that SentMessage, and no SentMessage was created for it.
C22_NoTagsStillResolved ==
    ppc = "s5" =>
        \A j \in 1..Len(messages_to_process) :
            LET m == messages_to_process[j]
            IN  (~read[m].tags /\ sent_before > 0 /\ Truthy(C22_Resolution(m).result)) =>
                    /\ read[m].link = C22_Resolution(m).result[1]
                    /\ \A k \in (sent_before + 1)..Len(sent) : sent[k] # m

(***************************************************************************)
(* Claims about the duplicate resolution, second part                      *)
(***************************************************************************)

\* C23: in one resolution the oracle is asked about no pool member twice, only about
\* members that find_similar_pairs retained, and about none after a call that confirmed.
C23_OracleCallsBounded ==
    d_pc = "returned" =>
        LET asked == d_out.asked
            retained == {d_existing[C11_Ranked[j][1]].read_message_id :
                            j \in 1..Len(C11_Ranked)}
        IN  /\ \A i, j \in 1..Len(asked) : i # j => asked[i] # asked[j]
            /\ \A i \in 1..Len(asked) : asked[i] \in retained
            /\ \A i \in 1..(Len(asked) - 1) : asked[i] \notin d_yes

(***************************************************************************)
(* Claims about Step 5.5                                                   *)
(***************************************************************************)

\* C24: when Step 5.5 started with sample_count below the minimum, 0 or not, the scorer
\* has been trained exactly once by the time the rows are scored.
C24_ColdStartBootstrap ==
    (p_pc \in {"scoring", "done"} /\ p_start.rows # <<>>
     /\ p_start.sample_count < scorer_min_samples) =>
        p_train_calls = 1

\* C25: when Step 5.5 has ended, every row that was to_send and has its read message
\* holds the score predict returned; it is low_score exactly when that score is <= the
\* negative threshold and the draw is >= low_score_send_probability, and to_send
\* otherwise; every other row is as it was.
C25_DemotionRule ==
    p_pc = "done" =>
        \A k \in DOMAIN p_start.rows :
            IF p_start.rows[k].state = "to_send" /\ p_start.rows[k].has_read
            THEN /\ p_score[k] # <<>>
                 /\ p_rows[k].prediction_score = p_score[k]
                 /\ p_rows[k].state = "low_score" <=>
                       (/\ p_score[k][1] <= scorer_neg_threshold
                        /\ p_draw[k] >= low_score_send_probability)
                 /\ p_rows[k].state \in {"low_score", "to_send"}
            ELSE p_rows[k] = p_start.rows[k]

\* Step 5.5 has ended with two low-scored rows, one demoted and one let through by its
\* draw.
C25_Witness ==
    /\ p_pc = "done"
    /\ \E k, j \in DOMAIN p_rows :
        /\ p_score[k] = <<scorer_neg_threshold>>
        /\ p_draw[k] = low_score_send_probability
        /\ p_rows[k].state = "low_score"
        /\ p_score[j] = <<scorer_neg_threshold>>
        /\ p_draw[j] = low_score_send_probability - 1
        /\ p_rows[j].state = "to_send"

(***************************************************************************)
(* Claims about Step 6, second part                                        *)
(***************************************************************************)

\* C26, second half: the telegram_id of a SentMessage, once set, is never changed by
\* any step of any run.
C26_TelegramIdStable ==
    [][\A k \in DOMAIN s_rows :
          s_rows[k].telegram_id # 0 => s_rows'[k].telegram_id = s_rows[k].telegram_id]_vars

\* C26: Step 6 sends an item without telegram_id and edits an item with one, so over
\* any sequence of runs the channel gets at most one message for a SentMessage.
C26_CreatedAtMostOnce ==
    \A k \in DOMAIN s_rows : s_created[k] <= 1

\* C27: under every interleaving of the tasks of Step 6, the number of send/edit calls
\* in flight never exceeds send_concurrency, and every task of a batch, waiting or in
\* flight, eventually completes.
C27_SendConcurrencyCap ==
    /\ [](Cardinality(s_inflight) <= send_concurrency)
    /\ \A k \in 1..MaxSend :
          (k \in s_todo \cup s_inflight) ~> (k \notin s_todo \cup s_inflight)

\* the semaphore is exhausted while another task of the batch waits for it
C27_Witness ==
    /\ s_pc = "sending"
    /\ Cardinality(s_inflight) = send_concurrency
    /\ s_todo # {}

(***************************************************************************)
(* Claims about Step 6.5, second part                                      *)
(***************************************************************************)

\* C28: after Step 6.5 has handled a message, a bot_reaction is recorded on it only if
\* set_message_reaction accepted that reaction; when the call failed or no reaction was
\* chosen the bot_reaction is still null, so the next run picks the message again.
C28_RecordedOnlyWhenAccepted ==
    (r_pc = "done" /\ r_reactions = <<>>) =>
        LET accepted == \E i \in DOMAIN r_set_calls : r_set_calls[i].ok
        IN  /\ r_bot_reaction # "" =>
                  \E i \in DOMAIN r_set_calls :
                      r_set_calls[i] = [emoji |-> r_bot_reaction, ok |-> TRUE]
            /\ (r_chosen = "" \/ ~accepted) => r_bot_reaction = ""

(***************************************************************************)
(* Claims about Step 3                                                     *)
(***************************************************************************)

\* C29: after Step 3, every message of the batch whose summarization gave an empty or
\* unparsable response or raised is in state error with a failure string, every message
\* whose summarization succeeded is in state summarized, whatever happened to the other
\* messages of the batch; no other row is touched; and no message is submitted to the
\* summarizer more than once in the run.
C29_Stage3Failures ==
    /\ \A i \in DOMAIN z_rows : Len(z_response[i]) <= 1
    /\ z_pc = "done" =>
          \A i \in DOMAIN z_rows :
              IF z_before[i].state = "clean" /\ z_before[i].long
              THEN /\ Len(z_response[i]) = 1
                   /\ z_response[i][1] = "ok" =>
                         z_rows[i].state = "summarized" /\ z_rows[i].summary # ""
                   /\ z_response[i][1] # "ok" =>
                         /\ z_rows[i].state = "error"
                         /\ z_rows[i].error # ""
                         /\ z_rows[i].summary = z_before[i].summary
              ELSE z_response[i] = <<>> /\ z_rows[i] = z_before[i]

\* Step 3 has ended for a batch whose first message raised and whose next message was
\* summarized
C29_Witness ==
    /\ z_pc = "done"
    /\ Len(z_list) >= 2
    /\ z_response[z_list[1]] = <<"raised">>
    /\ z_rows[z_list[1]].state = "error"
    /\ z_response[z_list[2]] = <<"ok">>
    /\ z_rows[z_list[2]].state = "summarized"

(***************************************************************************)
(* Claims about Step 1                                                     *)
(***************************************************************************)

\* C30: after any sequence of runs, over overlapping or repeated windows too, no two
\* rows of read_messages have the same (telegram_id, channel_id), and every row a run
\* inserts has state read.
C30_IngestIdempotent ==
    /\ [](\A a, b \in DOMAIN i_rows :
             (i_rows[a].telegram_id = i_rows[b].telegram_id
              /\ i_rows[a].channel_id = i_rows[b].channel_id) => a = b)
    /\ [][\A k \in (Len(i_rows) + 1)..Len(i_rows') : i_rows'[k].state = "read"]_vars

\* a later run has fetched a message that an earlier run persisted and that has left
\* state read since, and has inserted a new message next to it
C30_Witness ==
    /\ i_pc = "done"
    /\ i_runs >= 2
    /\ i_window = <<1, MaxTelegramId>>
    /\ \E a, b \in DOMAIN i_rows :
          /\ i_rows[a].state = "clean"
          /\ i_rows[b].state = "read"
          /\ i_rows[a].channel_id = i_rows[b].channel_id
          /\ i_rows[a].telegram_id > i_rows[b].telegram_id

(***************************************************************************)
(* Claims about Step 7.5                                                   *)
(***************************************************************************)

C32_FilesOfOneStep ==
    sc_disk.model # None =>
        /\ sc_disk.meta # None
        /\ sc_disk.meta[1].sample_count = sc_disk.model[1].sample_count
        /\ Len(sc_disk.model[1].model.coef_)
              = EmbeddingDim + FixedNumericDim + Len(sc_disk.meta[1].known_tags)

(***************************************************************************)
(* Claims about the subscribers cache, second part                         *)
(***************************************************************************)

\* C33: in a run in which should_refresh returned false, Step 7 writes the cache only
\* for channels that were missing from it: the cached value of every channel already
\* present stays as it was, and last_date_range stays as it was.
C33_IncrementalTopUp ==
    [][(cpc = "s7fetch" /\ ~need_full_refresh) =>
          /\ \A ch \in DOMAIN cache : ch \in DOMAIN cache' /\ cache'[ch] = cache[ch]
          /\ last_date_range' = last_date_range]_vars

\* a run without a full refresh has passed the top-up, with both channels cached and
\* the date range of an earlier run still recorded
C33_Witness ==
    /\ cpc = "s8"
    /\ ~need_full_refresh
    /\ refresh_calls >= 2
    /\ DOMAIN cache = Channels
    /\ last_date_range # None
    /\ last_date_range # window

(***************************************************************************)
(* Claims about the cron worker, second part                               *)
(***************************************************************************)

\* C34, the part about further runs: while a stop_cron request that has cleared the flag
\* waits for a worker, that worker starts no further process_messages invocation.
C34_NoRunAfterStop ==
    [][\A w \in Workers :
          (stops[w] > 0 /\ wstate[w] # "processing") => wstate'[w] # "processing"]_vars

(***************************************************************************)
(* Claims about the bot reaction over several runs                         *)
(***************************************************************************)

\* C35: once a SentMessage has a bot_reaction, no later step sets it back to null (so
\* Step 6.5 never picks the message for a second reaction).
C35_ReactionNeverReset ==
    [][\A k \in DOMAIN p_rows :
          p_rows[k].bot_reaction # "" => p_rows'[k].bot_reaction # ""]_vars

(***************************************************************************)
(* Claims about the life of a SentMessage                                  *)
(***************************************************************************)

AllowedTransitions ==
    ({"new", "to_update"} \X {"to_send", "no_send"})
        \cup ({"to_send"} \X {"low_score", "sent", "error"})
        \cup (SentStates \X {"to_update"})

\* C36: every change of a SentMessage's state is new -> to_send/no_send, to_update ->
\* to_send/no_send, to_send -> low_score/sent/error or anything -> to_update, and a
\* SentMessage is created in state new.
C36_StateMachine ==
    [][/\ \A k \in DOMAIN l_rows :
             l_rows'[k].state # l_rows[k].state
                 => <<l_rows[k].state, l_rows'[k].state>> \in AllowedTransitions
       /\ \A k \in DOMAIN l_rows' \ DOMAIN l_rows : l_rows'[k].state = "new"]_vars

\* a second run has re-gated an item published by the first one, next to an item that
\* failed the gate
C36_Witness ==
    /\ l_runs = 2
    /\ l_pc = "step55"
    /\ \E k \in DOMAIN l_rows : l_rows[k].state = "to_send" /\ l_rows[k].telegram_id # NoTelegramId
    /\ \E k \in DOMAIN l_rows : l_rows[k].state = "no_send"

\* C37: a SentMessage with a telegram_id is never in state low_score or no_send.
C37_PublishedStaysPublished ==
    \A k \in DOMAIN l_rows :
        l_rows[k].telegram_id # NoTelegramId => l_rows[k].state \notin {"low_score", "no_send"}

\* the part of C37 that holds: the gate of Step 5 never turns a published item to no_send
C37_GateKeepsPublished ==
    \A k \in DOMAIN l_rows :
        l_rows[k].telegram_id # NoTelegramId => l_rows[k].state # "no_send"

(***************************************************************************)
(* Claims about the progress of read_messages rows                         *)
(***************************************************************************)

\* C38: every row in state read eventually reaches deduplicated or error.
C38_Progress ==
    \A i \in 1..MaxProgress :
        (i \in DOMAIN pg_rows /\ pg_rows[i].state = "read")
            ~> (i \in DOMAIN pg_rows /\ pg_rows[i].state \in {"deduplicated", "error"})

\* C38, amended: every row in state read eventually reaches deduplicated or error, or
\* it is clean with a text shorter than the minimum length of Step 3.
C38_ProgressOfLong ==
    \A i \in 1..MaxProgress :
        (i \in DOMAIN pg_rows /\ pg_rows[i].state = "read")
            ~> (/\ i \in DOMAIN pg_rows
                /\ \/ pg_rows[i].state \in {"deduplicated", "error"}
                   \/ (pg_rows[i].state = "clean" /\ ~pg_rows[i].long))

\* a short clean row never leaves state clean
C38_ShortStaysClean ==
    [][\A i \in DOMAIN pg_rows :
          (pg_rows[i].state = "clean" /\ ~pg_rows[i].long)
              => (pg_rows'[i].state = "clean" /\ ~pg_rows'[i].long)]_vars

\* a later run has started while one row is deduplicated, one is in error and one is
\* clean and short
C38_Witness ==
    /\ pg_pc = "s1"
    /\ \E i \in DOMAIN pg_rows : pg_rows[i].state = "deduplicated"
    /\ \E i \in DOMAIN pg_rows : pg_rows[i].state = "error"
    /\ \E i \in DOMAIN pg_rows : pg_rows[i].state = "clean" /\ ~pg_rows[i].long

(***************************************************************************)
(* Claims about the windows of the cron worker                             *)
(***************************************************************************)

\* the windows of consecutive runs are contiguous and at most 48 hours long
C39_ContiguousBounded ==
    /\ \A j \in 1..Len(cw_done) :
          /\ cw_done[j][2] - cw_done[j][1] <= CatchUpHours
          /\ j > 1 => cw_done[j][1] = cw_done[j - 1][2]
    /\ cw_window # None => cw_window[2] - cw_window[1] <= CatchUpHours

\* C39: the windows of consecutive runs are contiguous and at most 48 hours long, and the
\* window of a run that raised is processed again: every finished window that is not
\* empty lies within a window whose Step 1 has completed, or is about to be run again.
C39_FailedWindowProcessedAgain ==
    /\ C39_ContiguousBounded
    /\ cw_pc = "sleep" =>
          \A j \in 1..Len(cw_done) :
              \/ cw_done[j][1] = cw_done[j][2]
              \/ \E g \in cw_ingested : g[1] <= cw_done[j][1] /\ cw_done[j][2] <= g[2]
              \/ cw_prev_run <= cw_done[j][1]

(***************************************************************************)
(* Claims about the days a digest is made for                              *)
(***************************************************************************)

\* C40: when the window of a run covers 12:00 of a day D, should_send_digest returns the
\* range of day D - 1 in that run, unless a digest of D - 1 is already marked as sent;
\* also when the window spans more than one calendar day.
C40_NoDigestDaySkipped ==
    cpc = "s8send" =>
        \A D \in Days :
            (window[1] <= DayMin(D) + TriggerHour /\ DayMin(D) + TriggerHour <= window[2])
                => \/ digest_range = <<DayMin(D - 1), DayMax(D - 1)>>
                   \/ (D - 1) \in markedDays

\* the part of C40 that holds: a window that lies within one calendar day
C40_WithinOneDay ==
    (cpc = "s8send" /\ Date(window[1]) = Date(window[2])) =>
        \A D \in Days :
            (window[1] <= DayMin(D) + TriggerHour /\ DayMin(D) + TriggerHour <= window[2])
                => \/ digest_range = <<DayMin(D - 1), DayMax(D - 1)>>
                   \/ (D - 1) \in markedDays

====
